---- MODULE Spec2Model ----
(***************************************************************************)
(* The client-side search engine of the FUID management application and   *)
(* the helpers that build its identifiers:                                 *)
(*   src/react-fuid-system/src/utils/searchEngine.js   (searchFuid,        *)
(*        findClosestMatch, calculateFuzzyScore, calculateStringDistance)  *)
(*   src/react-fuid-system/src/utils/textNormalizer.js (normalizeText,     *)
(*        generateCompanyId, generateFuid)                                 *)
(*   src/react-fuid-system/src/services/api.js (formatVersionForFuid)      *)
(* and the services and contexts around it:                                *)
(*   src/react-fuid-system/src/services/api.js (sendRAGMessageStream,      *)
(*        extractVersionWithOllama, saveData)                              *)
(*   src/react-fuid-system/src/context/ApplicationsContext.js              *)
(*        (addNewApplication, deleteApplication)                           *)
(*   src/react-fuid-system/src/context/AuthContext.js (login, signup,      *)
(*        logout, updateProfile, changePassword) with the handleSubmit of  *)
(*        src/react-fuid-system/src/components/Login.js and Signup.js      *)
(*                                                                         *)
(* A JavaScript string is a sequence of characters; a character is a       *)
(* one-character TLA+ string, except the non-ASCII characters the model    *)
(* knows, which are named by their code point ("U+00E9" is the precomposed *)
(* e-acute, "U+00C9" its capital, "U+0301" the combining acute accent that *)
(* NFD splits off, "U+0130" the capital I with a dot above, "U+0307" the   *)
(* combining dot above).  A JavaScript value is a tagged record: a string, *)
(* a number, a boolean, null or undefined; an object is a record.          *)
(***************************************************************************)
EXTENDS Integers, Sequences, FiniteSets, TLC

(***************************************************************************)
(* Bounds of the model.                                                    *)
(***************************************************************************)
\* the largest number of entries of data.fuid_mappings
MaxEntries == 2

\* the longest string the two scorer functions are called with
MaxStringLen == 3

\* the longest text normalizeText is called with
MaxTextLen == 3

\* the longest enumerated company name generateCompanyId is called with
MaxNameLen == 3

\* the longest enumerated version generateFuid and formatVersionForFuid are
\* called with
MaxVersionLen == 4

(***************************************************************************)
(* JavaScript values.                                                      *)
(***************************************************************************)
Str(cs) == [type |-> "string", chars |-> cs]

Num(n) == [type |-> "number", num |-> n]

Undefined == [type |-> "undefined"]

IsString(v) == v.type = "string"

Null == [type |-> "null"]

Bool(b) == [type |-> "boolean", bool |-> b]

\* ToBoolean: undefined, null, false, "" and 0 are falsy, an object and an
\* array are truthy
Truthy(v) ==
  CASE v.type = "string" -> v.chars # <<>>
    [] v.type = "number" -> v.num # 0
    [] v.type = "boolean" -> v.bool
    [] v.type = "object" -> TRUE
    [] v.type = "array" -> TRUE
    [] OTHER -> FALSE

\* the expression  v || ''
OrEmpty(v) == IF Truthy(v) THEN v ELSE Str(<<>>)

\* what a call ends with: the returned array, or a TypeError raised by a
\* method call on a value that has no such method
Return(rows) == [threw |-> FALSE, value |-> rows]

TypeError == [threw |-> TRUE, value |-> <<>>]

(***************************************************************************)
(* Characters.                                                             *)
(***************************************************************************)
LowerLetters ==
  <<"a","b","c","d","e","f","g","h","i","j","k","l","m",
    "n","o","p","q","r","s","t","u","v","w","x","y","z">>

UpperLetters ==
  <<"A","B","C","D","E","F","G","H","I","J","K","L","M",
    "N","O","P","Q","R","S","T","U","V","W","X","Y","Z">>

DigitChars == <<"0","1","2","3","4","5","6","7","8","9">>

Range(f) == {f[i] : i \in DOMAIN f}

\* the characters \s of a regular expression (and of String.prototype.trim)
WhiteSpace == {" ", "\t"}

Punctuation == {"-", ":", "!", "_", ".", "@", ",", "[", "]"}

Chars ==
  Range(LowerLetters) \cup Range(UpperLetters) \cup Range(DigitChars)
    \cup WhiteSpace \cup Punctuation
    \cup {"U+00E9", "U+00C9", "U+0301", "U+0130", "U+0307"}

\* the lower case of a character: one character, but for the capital I with
\* a dot above, whose lower case is an i and a combining dot above
LowerOf ==
  [c \in Chars |->
     IF c \in Range(UpperLetters)
       THEN <<LowerLetters[CHOOSE i \in 1..26 : UpperLetters[i] = c]>>
       ELSE IF c = "U+00C9" THEN <<"U+00E9">>
       ELSE IF c = "U+0130" THEN <<"i", "U+0307">>
       ELSE <<c>>]

UpperOf ==
  [c \in Chars |->
     IF c \in Range(LowerLetters)
       THEN UpperLetters[CHOOSE i \in 1..26 : LowerLetters[i] = c]
       ELSE IF c = "U+00E9" THEN "U+00C9" ELSE c]

RECURSIVE LowerChars(_)
LowerChars(s) ==
  IF s = <<>> THEN <<>> ELSE LowerOf[Head(s)] \o LowerChars(Tail(s))

\* String.prototype.toLowerCase / toUpperCase
toLowerCase(s) ==
  IF \A i \in 1..Len(s) : Len(LowerOf[s[i]]) = 1
    THEN [i \in 1..Len(s) |-> LowerOf[s[i]][1]]
    ELSE LowerChars(s)

toUpperCase(s) == [i \in 1..Len(s) |-> UpperOf[s[i]]]

\* String.prototype.startsWith
startsWith(s, prefix) ==
  /\ Len(s) >= Len(prefix)
  /\ SubSeq(s, 1, Len(prefix)) = prefix

\* String.prototype.trim
RECURSIVE trimStart(_)
trimStart(s) ==
  IF s # <<>> /\ Head(s) \in WhiteSpace THEN trimStart(Tail(s)) ELSE s

RECURSIVE trimEnd(_)
trimEnd(s) ==
  IF s # <<>> /\ s[Len(s)] \in WhiteSpace
    THEN trimEnd(SubSeq(s, 1, Len(s) - 1))
    ELSE s

trim(s) == trimEnd(trimStart(s))

\* String(n) for a non-negative integer
RECURSIVE NumberToString(_)
NumberToString(n) ==
  IF n < 10 THEN <<DigitChars[n + 1]>>
  ELSE Append(NumberToString(n \div 10), DigitChars[(n % 10) + 1])

RECURSIVE ToStringValue(_)

\* Array.prototype.toString: the items joined by commas, an item that is
\* undefined or null giving the empty string
RECURSIVE toStringOfItems(_)
toStringOfItems(items) ==
  IF items = <<>> THEN <<>>
  ELSE LET first == IF Head(items).type \in {"undefined", "null"}
                      THEN <<>> ELSE ToStringValue(Head(items))
       IN IF Len(items) = 1 THEN first
          ELSE first \o <<",">> \o toStringOfItems(Tail(items))

\* String(v)
ToStringValue(v) ==
  CASE v.type = "string" -> v.chars
    [] v.type = "number" -> NumberToString(v.num)
    [] v.type = "null" -> <<"n","u","l","l">>
    [] v.type = "boolean" ->
         IF v.bool THEN <<"t","r","u","e">> ELSE <<"f","a","l","s","e">>
    [] v.type = "object" ->
         <<"[","o","b","j","e","c","t"," ","O","b","j","e","c","t","]">>
    [] v.type = "array" -> toStringOfItems(v.items)
    [] OTHER -> <<"u","n","d","e","f","i","n","e","d">>

(***************************************************************************)
(* textNormalizer.js                                                       *)
(***************************************************************************)
\* String.prototype.normalize('NFD'): canonical decomposition
NFDOf ==
  [c \in Chars |->
     CASE c = "U+00E9" -> <<"e", "U+0301">>
       [] c = "U+00C9" -> <<"E", "U+0301">>
       [] c = "U+0130" -> <<"I", "U+0307">>
       [] OTHER -> <<c>>]

RECURSIVE normalizeNFD(_)
normalizeNFD(s) ==
  IF s = <<>> THEN <<>> ELSE NFDOf[Head(s)] \o normalizeNFD(Tail(s))

\* the class [\w\s.] : what  replace(/[^\w\s.]/g, '')  keeps
WordChars ==
  Range(LowerLetters) \cup Range(UpperLetters) \cup Range(DigitChars) \cup {"_"}

KeptChars == WordChars \cup WhiteSpace \cup {"."}

removePunctuation(s) == SelectSeq(s, LAMBDA c : c \in KeptChars)

\* replace(/\s+/g, ' ')
RECURSIVE collapseWhitespace(_)
collapseWhitespace(s) ==
  IF s = <<>> THEN <<>>
  ELSE IF Head(s) \in WhiteSpace
    THEN <<" ">> \o collapseWhitespace(trimStart(s))
    ELSE <<Head(s)>> \o collapseWhitespace(Tail(s))

\* a variant that trims the text first and not at the end
normalizeText_TrimsFirst(text) ==
  IF ~Truthy(text) THEN <<>>
  ELSE collapseWhitespace(removePunctuation(
         normalizeNFD(toLowerCase(trim(ToStringValue(text))))))

\* a variant that gives "" for every value that is no string
normalizeText_StringsOnly(text) ==
  IF ~Truthy(text) \/ ~IsString(text) THEN <<>>
  ELSE trim(collapseWhitespace(removePunctuation(
         normalizeNFD(toLowerCase(ToStringValue(text))))))

normalizeText(text) ==
  IF ~Truthy(text) THEN <<>>
  ELSE trim(collapseWhitespace(removePunctuation(
         normalizeNFD(toLowerCase(ToStringValue(text))))))

(***************************************************************************)
(* textNormalizer.js: generateCompanyId, generateFuid; api.js:             *)
(* formatVersionForFuid.  They return strings, kept here as the sequences  *)
(* of their characters.                                                    *)
(***************************************************************************)
\* substring(0, 5) of line 44
IdPrefixLength == 5

\* padStart(5, '0') of lines 36, 46 and 53
CounterDigits == 5

\* the class [a-zA-Z0-9]
AlnumChars ==
  Range(LowerLetters) \cup Range(UpperLetters) \cup Range(DigitChars)

\* String.prototype.padStart(targetLength, padChar)
padStart(s, targetLength, padChar) ==
  IF Len(s) >= targetLength THEN s
  ELSE [i \in 1..targetLength |->
          IF i <= targetLength - Len(s) THEN padChar
          ELSE s[i - (targetLength - Len(s))]]

\* String.prototype.split(separator), separator one character; part holds
\* the characters read since the last separator
RECURSIVE splitFrom(_, _, _)
splitFrom(s, separator, part) ==
  IF s = <<>> THEN <<part>>
  ELSE IF Head(s) = separator
    THEN <<part>> \o splitFrom(Tail(s), separator, <<>>)
    ELSE splitFrom(Tail(s), separator, Append(part, Head(s)))

split(s, separator) == splitFrom(s, separator, <<>>)

\* Array.prototype.join(separator)
RECURSIVE join(_, _)
join(parts, separator) ==
  IF parts = <<>> THEN <<>>
  ELSE IF Len(parts) = 1 THEN parts[1]
  ELSE parts[1] \o separator \o join(Tail(parts), separator)

\* String.prototype.substring(0, end)
substring(s, end) == SubSeq(s, 1, IF Len(s) < end THEN Len(s) ELSE end)

\* replace(/[^a-zA-Z0-9\s]/g, ' ')
cleanName(s) ==
  [i \in 1..Len(s) |->
     IF s[i] \in AlnumChars \cup WhiteSpace THEN s[i] ELSE " "]

UNKNOWN == <<"U","N","K","N","O","W","N">>

\* String(counter).padStart(5, '0')
paddedCounter(counter) == padStart(ToStringValue(counter), CounterDigits, "0")

generateCompanyId(companyName, counter) ==
  IF ~Truthy(companyName) THEN UNKNOWN \o paddedCounter(counter)
  ELSE
    LET cleanedName == cleanName(ToStringValue(companyName))
        words == SelectSeq(split(cleanedName, " "), LAMBDA word : Len(word) > 0)
        firstFiveChars == substring(join(words, <<>>), IdPrefixLength)
    IN IF firstFiveChars = <<>> THEN UNKNOWN \o paddedCounter(counter)
       ELSE toUpperCase(firstFiveChars) \o <<":">> \o paddedCounter(counter)

NoVersionFound ==
  <<"N","O"," ","V","E","R","S","I","O","N"," ","F","O","U","N","D">>

\* replace(/\s/g, "")
RECURSIVE removeWhitespace(_)
removeWhitespace(s) ==
  IF s = <<>> THEN <<>>
  ELSE IF Head(s) \in WhiteSpace THEN removeWhitespace(Tail(s))
  ELSE <<Head(s)>> \o removeWhitespace(Tail(s))

\* a variant that compares the version with "NO VERSION FOUND" as it is spelt
generateFuid_CaseSensitive(companyId, productId, version) ==
  LET cleanVersion ==
        IF ~Truthy(version) \/ ToStringValue(version) = NoVersionFound
          THEN <<"N","A">>
          ELSE removeWhitespace(ToStringValue(version))
  IN <<"F","U","I","D","-">> \o ToStringValue(companyId) \o <<"-">>
       \o ToStringValue(productId) \o <<"-">> \o cleanVersion

generateFuid(companyId, productId, version) ==
  LET cleanVersion ==
        IF ~Truthy(version) \/ toUpperCase(ToStringValue(version)) = NoVersionFound
          THEN <<"N","A">>
          ELSE removeWhitespace(ToStringValue(version))
  IN <<"F","U","I","D","-">> \o ToStringValue(companyId) \o <<"-">>
       \o ToStringValue(productId) \o <<"-">> \o cleanVersion

\* /^\d$/.test(trimmed)
isSingleDigit(s) == Len(s) = 1 /\ s[1] \in Range(DigitChars)

\* the callback of parts.map, api.js:206-214
formatPart(part) ==
  LET trimmed == trim(part)
  IN IF isSingleDigit(trimmed) THEN <<"0">> \o trimmed ELSE trimmed

\* a variant that pads every part shorter than two characters
formatVersionForFuid_PadsShort(version) ==
  IF ~Truthy(version) \/ version = Str(NoVersionFound) THEN Return(<<"0","0">>)
  ELSE IF ~IsString(version) THEN TypeError
  ELSE
    LET parts == split(version.chars, ".")
        formattedParts ==
          [i \in 1..Len(parts) |-> padStart(trim(parts[i]), 2, "0")]
    IN Return(join(formattedParts, <<"-">>))

\* api.js:189-210; version.split of a value that is no string raises
formatVersionForFuid(version) ==
  IF ~Truthy(version) \/ version = Str(NoVersionFound) THEN Return(<<"0","0">>)
  ELSE IF ~IsString(version) THEN TypeError
  ELSE
    LET parts == split(version.chars, ".")
        formattedParts == [i \in 1..Len(parts) |-> formatPart(parts[i])]
    IN Return(join(formattedParts, <<"-">>))

(***************************************************************************)
(* Numbers.  A fuzzy score is the double 100 - (distance / maxLength) * 100 *)
(* of searchEngine.js:42.  The model keeps it as the exact fraction         *)
(* 100 * (maxLength - distance) / maxLength in lowest terms: for the string *)
(* lengths of the model equal fractions give equal doubles, different       *)
(* fractions different doubles in the same order, and the fraction is       *)
(* above 80 (above 0) exactly when the double is.                           *)
(***************************************************************************)
RECURSIVE GCD(_, _)
GCD(a, b) == IF b = 0 THEN a ELSE GCD(b, a % b)

Rat(n, d) ==
  LET g == GCD(n, d) IN [num |-> n \div g, den |-> d \div g]

RatLess(a, b) == a.num * b.den < b.num * a.den

Hundred == Rat(100, 1)

Zero == Rat(0, 1)

\* the threshold of searchEngine.js:232 and :307
ProductThreshold == 80

Max(a, b) == IF a >= b THEN a ELSE b

Min3(a, b, c) ==
  IF a <= b /\ a <= c THEN a ELSE IF b <= c THEN b ELSE c

(***************************************************************************)
(* searchEngine.js: calculateStringDistance, calculateFuzzyScore           *)
(***************************************************************************)
\* row j of the matrix, as the sequence matrix[j][0], ..., matrix[j][s1.length];
\* cur holds the cells of the row already filled in
RECURSIVE FillRow(_, _, _, _, _)
FillRow(s1, s2, prev, j, cur) ==
  LET i == Len(cur) IN
  IF i > Len(s1) THEN cur
  ELSE
    LET indicator == IF s1[i] = s2[j] THEN 0 ELSE 1
        cell == Min3(cur[i] + 1,             \* deletion
                     prev[i + 1] + 1,        \* insertion
                     prev[i] + indicator)    \* substitution
    IN FillRow(s1, s2, prev, j, Append(cur, cell))

RECURSIVE MatrixRow(_, _, _)
MatrixRow(s1, s2, j) ==
  IF j = 0 THEN [i \in 1..(Len(s1) + 1) |-> i - 1]
  ELSE FillRow(s1, s2, MatrixRow(s1, s2, j - 1), j, <<j>>)

\* a variant that compares the strings without lower-casing them
calculateStringDistance_CaseSensitive(str1, str2) ==
  MatrixRow(str1, str2, Len(str2))[Len(str1) + 1]

calculateStringDistance(str1, str2) ==
  LET s1 == toLowerCase(str1)
      s2 == toLowerCase(str2)
  IN MatrixRow(s1, s2, Len(s2))[Len(s1) + 1]

\* a variant without the Math.max(0, ...) of line 42
calculateFuzzyScore_NoClamp(query, target) ==
  LET distance == calculateStringDistance(query, target)
      maxLength == Max(Len(query), Len(target))
  IN IF maxLength = 0 THEN Hundred
     ELSE Rat(100 * (maxLength - distance), maxLength)

calculateFuzzyScore(query, target) ==
  LET distance == calculateStringDistance(query, target)
      maxLength == Max(Len(query), Len(target))
  IN IF maxLength = 0 THEN Hundred
     ELSE LET score == Rat(100 * (maxLength - distance), maxLength)
          IN IF RatLess(score, Zero) THEN Zero ELSE score

(***************************************************************************)
(* The catalog: data.fuid_mappings, an object whose values are the         *)
(* entries, in the order Object.values / Object.entries visit them.        *)
(***************************************************************************)
Mappings(entries) == [type |-> "object", entries |-> entries]

\* an array
ArrayOf(items) == [type |-> "array", items |-> items]

\* a value of the catalog as the searches read it: the value with the
\* properties they read, where a property the value does not have, as any of
\* them on a string or a number, reads as undefined.  null and undefined
\* have no properties: they stay as they are, and reading one raises.
detailsOf(v) ==
  LET read == {"fuid", "company", "company_id", "product", "product_id",
               "version", "version_id", "url", "categories", "platform"}
  IN IF v.type \in {"undefined", "null"} THEN v
     ELSE [f \in DOMAIN v \cup read |-> IF f \in DOMAIN v THEN v[f] ELSE Undefined]

\* Object.values(data.fuid_mappings || {}): the values of an object, the items
\* of an array, the characters of a string; a number and a boolean have none
fuidMappingsOf(data) ==
  LET values ==
        CASE data.fuid_mappings.type = "object" -> data.fuid_mappings.entries
          [] data.fuid_mappings.type = "array" -> data.fuid_mappings.items
          [] data.fuid_mappings.type = "string" ->
               [i \in 1..Len(data.fuid_mappings.chars) |->
                  Str(<<data.fuid_mappings.chars[i]>>)]
          [] OTHER -> <<>>
  IN [i \in 1..Len(values) |-> detailsOf(values[i])]

\* details.fuid, details.company or details.product of a value that is null
\* or undefined raises a TypeError
BadEntry(entries) ==
  \E i \in 1..Len(entries) : entries[i].type \in {"undefined", "null"}

(***************************************************************************)
(* searchEngine.js: findClosestMatch                                       *)
(***************************************************************************)
\* Set.prototype.add on a Set kept in insertion order
SetAdd(terms, t) ==
  IF \E i \in 1..Len(terms) : terms[i] = t THEN terms ELSE Append(terms, t)

RECURSIVE CollectTerms(_, _)
CollectTerms(entries, allTerms) ==
  IF entries = <<>> THEN allTerms
  ELSE
    LET details == Head(entries)
        withCompany ==
          IF Truthy(details.company)
            THEN SetAdd(allTerms, toLowerCase(details.company.chars))
            ELSE allTerms
        withProduct ==
          IF Truthy(details.product)
            THEN SetAdd(withCompany, toLowerCase(details.product.chars))
            ELSE withCompany
    IN CollectTerms(Tail(entries), withProduct)

\* the forEach of lines 63-69; best is the pair closestMatch, bestScore
RECURSIVE ClosestOf(_, _, _)
ClosestOf(normalizedQuery, terms, best) ==
  IF terms = <<>> THEN best.closestMatch
  ELSE
    LET term == Head(terms)
        score == calculateFuzzyScore(normalizedQuery, term)
    IN ClosestOf(normalizedQuery, Tail(terms),
                 IF RatLess(best.bestScore, score)
                   THEN [closestMatch |-> term, bestScore |-> score]
                   ELSE best)

\* calling toLowerCase on a company or product that is truthy and no string
\* raises a TypeError
findClosestMatchThrows(data) ==
  IF BadEntry(fuidMappingsOf(data)) THEN TRUE
  ELSE
    \E i \in 1..Len(fuidMappingsOf(data)) :
      LET details == fuidMappingsOf(data)[i] IN
      \/ Truthy(details.company) /\ ~IsString(details.company)
      \/ Truthy(details.product) /\ ~IsString(details.product)

findClosestMatch(query, data) ==
  LET normalizedQuery == toLowerCase(normalizeText(query))
      allTerms == CollectTerms(fuidMappingsOf(data), <<>>)
  IN ClosestOf(normalizedQuery, allTerms,
               [closestMatch |-> <<>>, bestScore |-> Zero])

(***************************************************************************)
(* String.prototype.localeCompare on the characters of the model, as the   *)
(* root collation orders them: the strings are compared by their primary   *)
(* weights (white space, then punctuation, then digits, then letters, case *)
(* and accents ignored), then by their accents, then by their case (lower  *)
(* case first).  The result is -1, 0 or 1.                                 *)
(***************************************************************************)
PrimaryWeight ==
  [c \in Chars |->
     CASE c = "\t" -> 1
       [] c = " " -> 2
       [] c = "_" -> 3
       [] c = "-" -> 4
       [] c = "," -> 5
       [] c = ":" -> 6
       [] c = "!" -> 7
       [] c = "." -> 8
       [] c = "[" -> 9
       [] c = "]" -> 10
       [] c = "@" -> 11
       [] c \in Range(DigitChars) ->
            11 + (CHOOSE i \in 1..10 : DigitChars[i] = c)
       [] c \in Range(LowerLetters) ->
            21 + (CHOOSE i \in 1..26 : LowerLetters[i] = c)
       [] c \in Range(UpperLetters) ->
            21 + (CHOOSE i \in 1..26 : UpperLetters[i] = c)
       [] OTHER -> 0]            \* the combining accent has no primary weight

PrimaryKey(s) ==
  LET d == normalizeNFD(s)
      base == SelectSeq(d, LAMBDA c : PrimaryWeight[c] # 0)
  IN [i \in 1..Len(base) |-> PrimaryWeight[base[i]]]

SecondaryKey(s) ==
  LET d == normalizeNFD(s)
  IN [i \in 1..Len(d) |->
        IF d[i] = "U+0301" THEN 2 ELSE IF d[i] = "U+0307" THEN 3 ELSE 1]

TertiaryKey(s) ==
  LET d == normalizeNFD(s)
  IN [i \in 1..Len(d) |-> IF d[i] \in Range(UpperLetters) THEN 2 ELSE 1]

RECURSIVE CompareKeys(_, _)
CompareKeys(k1, k2) ==
  CASE k1 = <<>> /\ k2 = <<>> -> 0
    [] k1 = <<>> /\ k2 # <<>> -> -1
    [] k1 # <<>> /\ k2 = <<>> -> 1
    [] OTHER ->
         IF Head(k1) < Head(k2) THEN -1
         ELSE IF Head(k1) > Head(k2) THEN 1
         ELSE CompareKeys(Tail(k1), Tail(k2))

localeCompare(s1, s2) ==
  LET p == CompareKeys(PrimaryKey(s1), PrimaryKey(s2))
      q == CompareKeys(SecondaryKey(s1), SecondaryKey(s2))
      r == CompareKeys(TertiaryKey(s1), TertiaryKey(s2))
  IN IF p # 0 THEN p ELSE IF q # 0 THEN q ELSE r

(***************************************************************************)
(* Array.prototype.sort with a consistent comparator: a stable sort.  A    *)
(* row comes behind the rows that compare smaller and behind the rows that *)
(* compare equal and stood before it; cmp[j, i] is what the comparator     *)
(* gives for rows j and i.                                                 *)
(***************************************************************************)
SortRows(rows, cmp) ==
  LET n == Len(rows)
      Before(j, i) ==
        \/ cmp[j, i] < 0
        \/ cmp[j, i] = 0 /\ j < i
      Position(i) == 1 + Cardinality({j \in 1..n : Before(j, i)})
  IN [k \in 1..n |-> rows[CHOOSE i \in 1..n : Position(i) = k]]

\* (a, b) => a.product.localeCompare(b.product): a product that is no string
\* has no localeCompare and the call raises a TypeError, which has value <<>>;
\* the argument is converted to a string
CompareProduct(a, b) ==
  IF IsString(a.product)
    THEN [threw |-> FALSE,
          value |-> localeCompare(a.product.chars, ToStringValue(b.product))]
    ELSE [threw |-> TRUE, value |-> <<>>]

\* (a, b) => b.fuzzy_score - a.fuzzy_score
CompareScore(a, b) ==
  IF RatLess(a.fuzzy_score, b.fuzzy_score) THEN 1
  ELSE IF RatLess(b.fuzzy_score, a.fuzzy_score) THEN -1
  ELSE 0

\* results.sort((a, b) => a.product.localeCompare(b.product)) and its return.
\* The sort of V8 hands every row but the first to the comparator as a, and
\* the first row only as b: it raises when a row behind the first has a
\* product that is no string.  The first row is ordered by its product as a
\* string, which is how the other rows compare with it.
sortByProduct(rows) ==
  LET n == Len(rows)
      asText(row) ==
        [row EXCEPT !.product = Str(ToStringValue(row.product))]
  IN IF \E i \in 2..n : CompareProduct(rows[i], rows[1]).threw
       THEN TypeError
     ELSE Return(SortRows(rows, [j \in 1..n, i \in 1..n |->
                    CompareProduct(asText(rows[j]), rows[i]).value]))

sortByScore(rows) ==
  SortRows(rows, [j \in 1..Len(rows), i \in 1..Len(rows) |->
                    CompareScore(rows[j], rows[i])])

(***************************************************************************)
(* searchEngine.js: searchFuid                                             *)
(***************************************************************************)
FUID == <<"F","U","I","D">>

CompanyType == Str(<<"c","o","m","p","a","n","y">>)

ProductType == Str(<<"p","r","o","d","u","c","t">>)

\* a variant that gives every row the two fields of a closest match, empty
MatchRow_AlwaysAnnotated(type, details, score) ==
  [type |-> type,
   fuid |-> OrEmpty(details.fuid),
   company |-> OrEmpty(details.company),
   company_id |-> OrEmpty(details.company_id),
   product |-> OrEmpty(details.product),
   product_id |-> OrEmpty(details.product_id),
   version |-> OrEmpty(details.version),
   version_id |-> OrEmpty(details.version_id),
   url |-> OrEmpty(details.url),
   categories |-> OrEmpty(details.categories),
   platform |-> OrEmpty(details.platform),
   fuzzy_score |-> score,
   closest_match |-> Str(<<>>),
   original_query |-> Str(<<>>)]

\* the object literal pushed at lines 87-100, 114-127, 143-156, 206-219, 233-246
MatchRow(type, details, score) ==
  [type |-> type,
   fuid |-> OrEmpty(details.fuid),
   company |-> OrEmpty(details.company),
   company_id |-> OrEmpty(details.company_id),
   product |-> OrEmpty(details.product),
   product_id |-> OrEmpty(details.product_id),
   version |-> OrEmpty(details.version),
   version_id |-> OrEmpty(details.version_id),
   url |-> OrEmpty(details.url),
   categories |-> OrEmpty(details.categories),
   platform |-> OrEmpty(details.platform),
   fuzzy_score |-> score]

\* a variant that records the normalized query as the original query
ClosestRow_NormalizedQuery(details, score, closestMatch, query) ==
  [type |-> "Closest Match",
   fuid |-> OrEmpty(details.fuid),
   company |-> OrEmpty(details.company),
   company_id |-> OrEmpty(details.company_id),
   product |-> OrEmpty(details.product),
   product_id |-> OrEmpty(details.product_id),
   version |-> OrEmpty(details.version),
   version_id |-> OrEmpty(details.version_id),
   url |-> OrEmpty(details.url),
   categories |-> OrEmpty(details.categories),
   platform |-> OrEmpty(details.platform),
   fuzzy_score |-> score,
   closest_match |-> Str(closestMatch),
   original_query |-> Str(normalizeText(query))]

\* the object literal pushed at lines 279-294 and 308-323
ClosestRow(details, score, closestMatch, query) ==
  [type |-> "Closest Match",
   fuid |-> OrEmpty(details.fuid),
   company |-> OrEmpty(details.company),
   company_id |-> OrEmpty(details.company_id),
   product |-> OrEmpty(details.product),
   product_id |-> OrEmpty(details.product_id),
   version |-> OrEmpty(details.version),
   version_id |-> OrEmpty(details.version_id),
   url |-> OrEmpty(details.url),
   categories |-> OrEmpty(details.categories),
   platform |-> OrEmpty(details.platform),
   fuzzy_score |-> score,
   closest_match |-> Str(closestMatch),
   original_query |-> query]

\* the rows a loop over the n entries pushes: row[i] for every entry i with
\* keep[i], in the order of the entries
PushRows(n, keep, row) ==
  LET kept == SelectSeq([i \in 1..n |-> i], LAMBDA i : keep[i])
  IN [k \in 1..Len(kept) |-> row[kept[k]]]

\* normalizeText(details.company || '').toLowerCase(), and the same of product
normalizedCompanyOf(details) ==
  toLowerCase(normalizeText(OrEmpty(details.company)))

normalizedProductOf(details) ==
  toLowerCase(normalizeText(OrEmpty(details.product)))

\* a company (product) that is truthy and no string: toLowerCase on it raises
BadCompany(entries) ==
  \E i \in 1..Len(entries) :
    Truthy(entries[i].company) /\ ~IsString(entries[i].company)

BadProduct(entries) ==
  \E i \in 1..Len(entries) :
    Truthy(entries[i].product) /\ ~IsString(entries[i].product)

\* a variant that tests the prefix without upper-casing the query
isFuidQuery_CaseSensitive(query) == startsWith(query.chars, FUID)

\* 1. FUID exact match search, lines 81-105
isFuidQuery(query) == startsWith(toUpperCase(query.chars), FUID)

fuidSearch(query, data) ==
  LET entries == fuidMappingsOf(data)
      n == Len(entries)
      fuidOf(i) == OrEmpty(entries[i].fuid)
      Keep(i) == toUpperCase(query.chars) = toUpperCase(fuidOf(i).chars)
      Row(i) == MatchRow("FUID Match", entries[i], Hundred)
  IN IF BadEntry(entries) THEN TypeError
     ELSE
     IF \E i \in 1..n : ~IsString(fuidOf(i)) THEN TypeError
     ELSE Return(PushRows(n,
              [i \in 1..n |-> Keep(i)],
              [i \in 1..n |-> Row(i)]))

\* a variant that compares the company with the selected term case-sensitively
companySearch_CaseSensitive(data, selectedItem) ==
  LET entries == fuidMappingsOf(data)
      n == Len(entries)
      Keep(i) ==
        /\ Truthy(entries[i].company)
        /\ entries[i].company.chars = selectedItem.chars
      Row(i) == MatchRow("Company Match", entries[i], Hundred)
  IN IF BadEntry(entries) THEN TypeError
     ELSE
     IF \/ BadCompany(entries)
        \/ ~IsString(selectedItem) /\ \E i \in 1..n : Truthy(entries[i].company)
       THEN TypeError
     ELSE sortByProduct(PushRows(n,
              [i \in 1..n |-> Keep(i)],
              [i \in 1..n |-> Row(i)]))

\* 2. auto-suggest selection of a company, lines 108-133
companySearch(data, selectedItem) ==
  LET entries == fuidMappingsOf(data)
      n == Len(entries)
      Keep(i) ==
        /\ Truthy(entries[i].company)
        /\ toLowerCase(entries[i].company.chars) = toLowerCase(selectedItem.chars)
      Row(i) == MatchRow("Company Match", entries[i], Hundred)
  IN IF BadEntry(entries) THEN TypeError
     ELSE
     IF \/ BadCompany(entries)
        \/ ~IsString(selectedItem) /\ \E i \in 1..n : Truthy(entries[i].company)
       THEN TypeError
     ELSE sortByProduct(PushRows(n,
              [i \in 1..n |-> Keep(i)],
              [i \in 1..n |-> Row(i)]))

\* 2. auto-suggest selection of a product, lines 135-163
productSearch(data, selectedItem) ==
  LET entries == fuidMappingsOf(data)
      n == Len(entries)
      fuzzyScore(i) ==
        calculateFuzzyScore(toLowerCase(selectedItem.chars),
                            toLowerCase(entries[i].product.chars))
      Keep(i) == Truthy(entries[i].product) /\ RatLess(Zero, fuzzyScore(i))
      Row(i) == MatchRow("Product Match", entries[i], fuzzyScore(i))
  IN IF BadEntry(entries) THEN TypeError
     ELSE
     IF \/ BadProduct(entries)
        \/ ~IsString(selectedItem) /\ \E i \in 1..n : Truthy(entries[i].product)
       THEN TypeError
     ELSE Return(sortByScore(PushRows(n,
              [i \in 1..n |-> Keep(i)],
              [i \in 1..n |-> Row(i)])))

\* the last of the entries hits, the entries whose normalized company
\* (product) is the normalized query; Undefined stands for the initial null
lastMatch(entries, hits) ==
  IF hits = {} THEN Undefined
  ELSE entries[CHOOSE i \in hits : \A j \in hits : j <= i]

\* a variant that looks at the exact product before the exact company
exactSearch_ProductFirst(normalizedQuery, data) ==
  LET entries == fuidMappingsOf(data)
      n == Len(entries)
      companyHit ==
        lastMatch(entries,
          {i \in 1..n : normalizedQuery = normalizedCompanyOf(entries[i])})
      productHit ==
        lastMatch(entries,
          {i \in 1..n : normalizedQuery = normalizedProductOf(entries[i])})
      exactCompanyMatch ==
        IF companyHit = Undefined THEN Undefined ELSE companyHit.company
      exactProductMatch ==
        IF productHit = Undefined THEN Undefined ELSE productHit.product
      KeepCompany(i) ==
        /\ Truthy(entries[i].company)
        /\ toLowerCase(entries[i].company.chars)
             = toLowerCase(exactCompanyMatch.chars)
      CompanyRow(i) == MatchRow("Company Match", entries[i], Hundred)
      fuzzyScore(i) ==
        calculateFuzzyScore(normalizedQuery, toLowerCase(entries[i].product.chars))
      KeepProduct(i) ==
        /\ Truthy(entries[i].product)
        /\ RatLess(Rat(ProductThreshold, 1), fuzzyScore(i))
      ProductRow(i) == MatchRow("Product Match", entries[i], fuzzyScore(i))
  IN IF BadEntry(entries) THEN TypeError
     ELSE
     IF Truthy(exactProductMatch)
       THEN IF BadProduct(entries) THEN TypeError
            ELSE Return(sortByScore(PushRows(n,
              [i \in 1..n |-> KeepProduct(i)],
              [i \in 1..n |-> ProductRow(i)])))
     ELSE IF Truthy(exactCompanyMatch)
       THEN IF BadCompany(entries) THEN TypeError
            ELSE sortByProduct(PushRows(n,
              [i \in 1..n |-> KeepCompany(i)],
              [i \in 1..n |-> CompanyRow(i)]))
     ELSE Return(<<>>)

\* a variant that keeps the products of score exactly 80 too
exactSearch_KeepsThreshold(normalizedQuery, data) ==
  LET entries == fuidMappingsOf(data)
      n == Len(entries)
      companyHit ==
        lastMatch(entries,
          {i \in 1..n : normalizedQuery = normalizedCompanyOf(entries[i])})
      productHit ==
        lastMatch(entries,
          {i \in 1..n : normalizedQuery = normalizedProductOf(entries[i])})
      exactCompanyMatch ==
        IF companyHit = Undefined THEN Undefined ELSE companyHit.company
      exactProductMatch ==
        IF productHit = Undefined THEN Undefined ELSE productHit.product
      KeepCompany(i) ==
        /\ Truthy(entries[i].company)
        /\ toLowerCase(entries[i].company.chars)
             = toLowerCase(exactCompanyMatch.chars)
      CompanyRow(i) == MatchRow("Company Match", entries[i], Hundred)
      fuzzyScore(i) ==
        calculateFuzzyScore(normalizedQuery, toLowerCase(entries[i].product.chars))
      KeepProduct(i) ==
        /\ Truthy(entries[i].product)
        /\ ~RatLess(fuzzyScore(i), Rat(ProductThreshold, 1))
      ProductRow(i) == MatchRow("Product Match", entries[i], fuzzyScore(i))
  IN IF BadEntry(entries) THEN TypeError
     ELSE
     IF Truthy(exactCompanyMatch)
       THEN IF BadCompany(entries) THEN TypeError
            ELSE sortByProduct(PushRows(n,
              [i \in 1..n |-> KeepCompany(i)],
              [i \in 1..n |-> CompanyRow(i)]))
     ELSE IF Truthy(exactProductMatch)
       THEN IF BadProduct(entries) THEN TypeError
            ELSE Return(sortByScore(PushRows(n,
              [i \in 1..n |-> KeepProduct(i)],
              [i \in 1..n |-> ProductRow(i)])))
     ELSE Return(<<>>)

\* a variant that scores the normalized products, not the raw ones
exactSearch_ScoresNormalized(normalizedQuery, data) ==
  LET entries == fuidMappingsOf(data)
      n == Len(entries)
      companyHit ==
        lastMatch(entries,
          {i \in 1..n : normalizedQuery = normalizedCompanyOf(entries[i])})
      productHit ==
        lastMatch(entries,
          {i \in 1..n : normalizedQuery = normalizedProductOf(entries[i])})
      exactCompanyMatch ==
        IF companyHit = Undefined THEN Undefined ELSE companyHit.company
      exactProductMatch ==
        IF productHit = Undefined THEN Undefined ELSE productHit.product
      KeepCompany(i) ==
        /\ Truthy(entries[i].company)
        /\ toLowerCase(entries[i].company.chars)
             = toLowerCase(exactCompanyMatch.chars)
      CompanyRow(i) == MatchRow("Company Match", entries[i], Hundred)
      fuzzyScore(i) ==
        calculateFuzzyScore(normalizedQuery, normalizedProductOf(entries[i]))
      KeepProduct(i) ==
        /\ Truthy(entries[i].product)
        /\ RatLess(Rat(ProductThreshold, 1), fuzzyScore(i))
      ProductRow(i) == MatchRow("Product Match", entries[i], fuzzyScore(i))
  IN IF BadEntry(entries) THEN TypeError
     ELSE
     IF Truthy(exactCompanyMatch)
       THEN IF BadCompany(entries) THEN TypeError
            ELSE sortByProduct(PushRows(n,
              [i \in 1..n |-> KeepCompany(i)],
              [i \in 1..n |-> CompanyRow(i)]))
     ELSE IF Truthy(exactProductMatch)
       THEN IF BadProduct(entries) THEN TypeError
            ELSE Return(sortByScore(PushRows(n,
              [i \in 1..n |-> KeepProduct(i)],
              [i \in 1..n |-> ProductRow(i)])))
     ELSE Return(<<>>)

\* a variant that keeps the first company that matches, not the last
exactSearch_FirstCompany(normalizedQuery, data) ==
  LET entries == fuidMappingsOf(data)
      n == Len(entries)
      companyHits ==
        {i \in 1..n : normalizedQuery = normalizedCompanyOf(entries[i])}
      companyHit ==
        IF companyHits = {} THEN Undefined
        ELSE entries[CHOOSE i \in companyHits : \A j \in companyHits : i <= j]
      productHit ==
        lastMatch(entries,
          {i \in 1..n : normalizedQuery = normalizedProductOf(entries[i])})
      exactCompanyMatch ==
        IF companyHit = Undefined THEN Undefined ELSE companyHit.company
      exactProductMatch ==
        IF productHit = Undefined THEN Undefined ELSE productHit.product
      KeepCompany(i) ==
        /\ Truthy(entries[i].company)
        /\ toLowerCase(entries[i].company.chars)
             = toLowerCase(exactCompanyMatch.chars)
      CompanyRow(i) == MatchRow("Company Match", entries[i], Hundred)
      fuzzyScore(i) ==
        calculateFuzzyScore(normalizedQuery, toLowerCase(entries[i].product.chars))
      KeepProduct(i) ==
        /\ Truthy(entries[i].product)
        /\ RatLess(Rat(ProductThreshold, 1), fuzzyScore(i))
      ProductRow(i) == MatchRow("Product Match", entries[i], fuzzyScore(i))
  IN IF BadEntry(entries) THEN TypeError
     ELSE
     IF Truthy(exactCompanyMatch)
       THEN IF BadCompany(entries) THEN TypeError
            ELSE sortByProduct(PushRows(n,
              [i \in 1..n |-> KeepCompany(i)],
              [i \in 1..n |-> CompanyRow(i)]))
     ELSE IF Truthy(exactProductMatch)
       THEN IF BadProduct(entries) THEN TypeError
            ELSE Return(sortByScore(PushRows(n,
              [i \in 1..n |-> KeepProduct(i)],
              [i \in 1..n |-> ProductRow(i)])))
     ELSE Return(<<>>)

\* 3. direct search, an exact match found, lines 185-252
exactSearch(normalizedQuery, data) ==
  LET entries == fuidMappingsOf(data)
      n == Len(entries)
      companyHit ==
        lastMatch(entries,
          {i \in 1..n : normalizedQuery = normalizedCompanyOf(entries[i])})
      productHit ==
        lastMatch(entries,
          {i \in 1..n : normalizedQuery = normalizedProductOf(entries[i])})
      exactCompanyMatch ==
        IF companyHit = Undefined THEN Undefined ELSE companyHit.company
      exactProductMatch ==
        IF productHit = Undefined THEN Undefined ELSE productHit.product
      KeepCompany(i) ==
        /\ Truthy(entries[i].company)
        /\ toLowerCase(entries[i].company.chars)
             = toLowerCase(exactCompanyMatch.chars)
      CompanyRow(i) == MatchRow("Company Match", entries[i], Hundred)
      fuzzyScore(i) ==
        calculateFuzzyScore(normalizedQuery, toLowerCase(entries[i].product.chars))
      KeepProduct(i) ==
        /\ Truthy(entries[i].product)
        /\ RatLess(Rat(ProductThreshold, 1), fuzzyScore(i))
      ProductRow(i) == MatchRow("Product Match", entries[i], fuzzyScore(i))
  IN IF BadEntry(entries) THEN TypeError
     ELSE
     IF Truthy(exactCompanyMatch)
       THEN IF BadCompany(entries) THEN TypeError
            ELSE sortByProduct(PushRows(n,
              [i \in 1..n |-> KeepCompany(i)],
              [i \in 1..n |-> CompanyRow(i)]))
     ELSE IF Truthy(exactProductMatch)
       THEN IF BadProduct(entries) THEN TypeError
            ELSE Return(sortByScore(PushRows(n,
              [i \in 1..n |-> KeepProduct(i)],
              [i \in 1..n |-> ProductRow(i)])))
     ELSE Return(<<>>)

\* a variant that scores the products against the query, not the closest term
closestSearch_ScoresQuery(query, data) ==
  LET entries == fuidMappingsOf(data)
      n == Len(entries)
      closestMatch == findClosestMatch(query, data)
      isClosestMatchCompany ==
        \E i \in 1..n : closestMatch = normalizedCompanyOf(entries[i])
      isClosestMatchProduct ==
        \E i \in 1..n : closestMatch = normalizedProductOf(entries[i])
      KeepCompany(i) == normalizedCompanyOf(entries[i]) = closestMatch
      CompanyRow(i) == ClosestRow(entries[i], Hundred, closestMatch, query)
      fuzzyScore(i) ==
        calculateFuzzyScore(toLowerCase(normalizeText(query)),
                            toLowerCase(entries[i].product.chars))
      KeepProduct(i) ==
        /\ Truthy(entries[i].product)
        /\ RatLess(Rat(ProductThreshold, 1), fuzzyScore(i))
      ProductRow(i) == ClosestRow(entries[i], fuzzyScore(i), closestMatch, query)
  IN IF findClosestMatchThrows(data) THEN TypeError
     ELSE IF closestMatch = <<>> THEN Return(<<>>)
     ELSE IF isClosestMatchCompany
       THEN sortByProduct(PushRows(n,
              [i \in 1..n |-> KeepCompany(i)],
              [i \in 1..n |-> CompanyRow(i)]))
     ELSE IF isClosestMatchProduct
       THEN Return(sortByScore(PushRows(n,
              [i \in 1..n |-> KeepProduct(i)],
              [i \in 1..n |-> ProductRow(i)])))
     ELSE Return(<<>>)

\* 3. direct search, no exact match: the closest match, lines 253-331
closestSearch(query, data) ==
  LET entries == fuidMappingsOf(data)
      n == Len(entries)
      closestMatch == findClosestMatch(query, data)
      isClosestMatchCompany ==
        \E i \in 1..n : closestMatch = normalizedCompanyOf(entries[i])
      isClosestMatchProduct ==
        \E i \in 1..n : closestMatch = normalizedProductOf(entries[i])
      KeepCompany(i) == normalizedCompanyOf(entries[i]) = closestMatch
      CompanyRow(i) == ClosestRow(entries[i], Hundred, closestMatch, query)
      fuzzyScore(i) ==
        calculateFuzzyScore(closestMatch, toLowerCase(entries[i].product.chars))
      KeepProduct(i) ==
        /\ Truthy(entries[i].product)
        /\ RatLess(Rat(ProductThreshold, 1), fuzzyScore(i))
      ProductRow(i) == ClosestRow(entries[i], fuzzyScore(i), closestMatch, query)
  IN IF findClosestMatchThrows(data) THEN TypeError
     ELSE IF closestMatch = <<>> THEN Return(<<>>)
     ELSE IF isClosestMatchCompany
       THEN sortByProduct(PushRows(n,
              [i \in 1..n |-> KeepCompany(i)],
              [i \in 1..n |-> CompanyRow(i)]))
     ELSE IF isClosestMatchProduct
       THEN Return(sortByScore(PushRows(n,
              [i \in 1..n |-> KeepProduct(i)],
              [i \in 1..n |-> ProductRow(i)])))
     ELSE Return(<<>>)

\* a variant without the floor of two characters
directSearch_NoFloor(query, data) ==
  LET normalizedQuery == trim(toLowerCase(normalizeText(query)))
      entries == fuidMappingsOf(data)
      exactMatchFound ==
        \E i \in 1..Len(entries) :
          \/ normalizedQuery = normalizedCompanyOf(entries[i])
          \/ normalizedQuery = normalizedProductOf(entries[i])
  IN IF FALSE THEN Return(<<>>)
     ELSE IF BadEntry(entries) THEN TypeError
     ELSE IF exactMatchFound THEN exactSearch(normalizedQuery, data)
     ELSE closestSearch(query, data)

\* 3. direct search with normalization, lines 165-333
directSearch(query, data) ==
  LET normalizedQuery == trim(toLowerCase(normalizeText(query)))
      entries == fuidMappingsOf(data)
      exactMatchFound ==
        \E i \in 1..Len(entries) :
          \/ normalizedQuery = normalizedCompanyOf(entries[i])
          \/ normalizedQuery = normalizedProductOf(entries[i])
  IN IF Len(normalizedQuery) < 2 THEN Return(<<>>)
     ELSE IF BadEntry(entries) THEN TypeError
     ELSE IF exactMatchFound THEN exactSearch(normalizedQuery, data)
     ELSE closestSearch(query, data)

searchFuid(query, data, searchType, selectedItem) ==
  IF ~IsString(query) THEN TypeError
  ELSE IF isFuidQuery(query) THEN fuidSearch(query, data)
  ELSE IF searchType = CompanyType /\ Truthy(selectedItem)
    THEN companySearch(data, selectedItem)
  ELSE IF searchType = ProductType /\ Truthy(selectedItem)
    THEN productSearch(data, selectedItem)
  ELSE directSearch(query, data)

(***************************************************************************)
(* The inputs of the calls the model makes.  The entries carry strings     *)
(* with case variants, punctuation and an accent, absent fields, and one   *)
(* entry whose identifier and company are numbers.  Three more entries     *)
(* stand in a few catalogs of their own: one whose product lower-casing    *)
(* makes longer, one whose product is a number, and one in a catalog that  *)
(* is an array.  Of the last catalogs one is an array with a number, one   *)
(* an array with null, and one a string.                                   *)
(***************************************************************************)
CatalogEntry(fuid, company, product) ==
  [type |-> "object", fuid |-> fuid, company |-> company, company_id |-> Undefined,
   product |-> product, product_id |-> Undefined,
   version |-> Str(<<"1",".","0">>), version_id |-> Undefined,
   url |-> Undefined, categories |-> Undefined, platform |-> Undefined]

EntryPool ==
  { CatalogEntry(Str(<<"F","U","I","D","-","A","1">>), Str(<<"A","c","m","e">>), Str(<<"G","i","z","m","o">>)),
    CatalogEntry(Str(<<"f","u","i","d","-","a","1">>), Str(<<"A","C","M","E">>), Str(<<"G","i","z","m","o","s">>)),
    CatalogEntry(Str(<<"F","U","I","D","-","B","2">>), Str(<<"A","c","-","m","U+00C9">>), Str(<<"W","i","d","g","e","t">>)),
    CatalogEntry(Str(<<"F","U","I","D","-","C","3">>), Str(<<"G","i","z","m","o">>), Str(<<"A","c","-","M","e","!">>)),
    CatalogEntry(Str(<<"F","U","I","D","-","E","5">>), Str(<<"G","I","Z","M","O">>), Str(<<"G","i","z","m","o">>)),
    CatalogEntry(Undefined, Undefined, Str(<<"G","i","z","m">>)),
    CatalogEntry(Str(<<"F","U","I","D","-","D","4">>), Str(<<"F","u","i","d","c","o">>), Undefined),
    CatalogEntry(Num(42), Num(42), Str(<<"G","i","z","m","o">>)) }

AcmeEntry ==
  CatalogEntry(Str(<<"F","U","I","D","-","A","1">>), Str(<<"A","c","m","e">>), Str(<<"G","i","z","m","o">>))

\* 'aİ' has two characters and its lower case three
DottedEntry ==
  CatalogEntry(Str(<<"F","U","I","D","-","F","6">>), Str(<<"D","o","t">>), Str(<<"a","U+0130">>))

NumberedEntry ==
  CatalogEntry(Str(<<"F","U","I","D","-","G","7">>), Str(<<"A","c","m","e">>), Num(42))

SpecialCatalogs ==
  {[fuid_mappings |-> Mappings(es)] :
     es \in {<<DottedEntry>>, <<AcmeEntry, DottedEntry>>,
             <<NumberedEntry>>, <<AcmeEntry, NumberedEntry>>,
             <<NumberedEntry, AcmeEntry>>}}
  \cup {[fuid_mappings |-> ArrayOf(<<AcmeEntry, DottedEntry>>)],
        [fuid_mappings |-> ArrayOf(<<Num(1), AcmeEntry>>)],
        [fuid_mappings |-> ArrayOf(<<AcmeEntry, Null>>)],
        [fuid_mappings |-> Str(<<"a","b">>)]}

\* the catalogs: no mapping at all, up to MaxEntries entries of the pool, or
\* one of the special catalogs
DataPool ==
  {[fuid_mappings |-> Undefined]} \cup
  {[fuid_mappings |-> Mappings(es)] :
     es \in UNION {[1..n -> EntryPool] : n \in 0..MaxEntries}} \cup
  SpecialCatalogs

QueryPool ==
  { Str(<<"F","U","I","D","-","A","1">>),
    Str(<<"f","u","i","d","-","a","1">>),
    Str(<<" ","F","U","I","D","-","A","1">>),
    Str(<<"F","U","I","D","-","A","1","\t">>),
    Str(<<"F","U","I","D","-","Z","Z">>),
    Str(<<"f","u","i","d","c","o">>),
    Str(<<"A","c","m","e">>),
    Str(<<"g","i","z","m","o","!">>),
    Str(<<"G","i","z","m","o","s">>),
    Str(<<"A","k","m","e">>),
    Str(<<"g","i","z","m","o","z">>),
    Str(<<"a">>),
    Str(<<>>),
    Str(<<" ","!">>),
    Str(<<"x","q">>),
    Num(42), Undefined }

SearchTypePool == {Undefined, CompanyType, ProductType}

SelectedItemPool ==
  {Undefined, Str(<<"a","c","m","e">>), Str(<<"G","I","Z","M","O">>), Str(<<"a">>), Num(42)}

(***************************************************************************)
(* The state.  query, data, searchType and selectedItem are the arguments  *)
(* of searchFuid; result and pc belong to the machine of one call.  heap   *)
(* and callers belong to the machine of several callers that share one     *)
(* catalog; callee, args and returns to the machine that calls a helper.   *)
(* A machine leaves the variables of the others at rest.                   *)
(***************************************************************************)
VARIABLES query, data, searchType, selectedItem, result, pc,
          heap, callers, callee, args, returns

(***************************************************************************)
(* The state of the machines of the services and contexts.                 *)
(*   sendRAGMessageStream: wire is the body the server sends, received how *)
(*     much of it the reader has been given, buffer the text read and not  *)
(*     yet split into lines, calls the callbacks invoked so far, streamPc  *)
(*     where the function stands.                                          *)
(*   addNewApplication: stored is the applications field of the data the   *)
(*     backend persists, applications the list of the provider, submitters *)
(*     where each call stands, what it built and read and which of its     *)
(*     catches ran, approvals the queue of the backend, clock the last     *)
(*     reading of Date.now(), saver the call of saveData.                  *)
(*   AuthProvider: users and currentUser are the state of the provider,    *)
(*     toast the toasts shown so far.  loginArgs are the email and the     *)
(*     password typed into the form of Login.js, apiLoginReply what the    *)
(*     backend answers, loginPc where handleSubmit and its call of login   *)
(*     stand, loginScope the users of the render that login was made in.   *)
(*     signupCall, profileCall and passwordCall are the calls of signup,   *)
(*     updateProfile and changePassword: where each stands, its arguments  *)
(*     and the state of the render it was made in.                         *)
(*   extractVersionWithOllama: ollamaReply and backendReply are what the   *)
(*     two services answer, versionPc where the call stands, extracted     *)
(*     what its promise resolved to.                                       *)
(***************************************************************************)
VARIABLES wire, received, buffer, calls, streamPc,
          stored, applications, submitters, approvals, clock, saver,
          users, currentUser, loginArgs, apiLoginReply, loginPc, toast,
          loginScope, signupCall, profileCall, passwordCall,
          ollamaReply, backendReply, versionPc, extracted

streamVars == <<wire, received, buffer, calls, streamPc>>

submitVars == <<stored, applications, submitters, approvals, clock, saver>>

loginVars ==
  <<users, currentUser, loginArgs, apiLoginReply, loginPc, toast,
    loginScope, signupCall, profileCall, passwordCall>>

versionVars == <<ollamaReply, backendReply, versionPc, extracted>>

serviceVars == <<streamVars, submitVars, loginVars, versionVars>>

searchVars ==
  <<query, data, searchType, selectedItem, result, pc,
    heap, callers, callee, args, returns>>

vars == <<searchVars, serviceVars>>

\* no stream is read
StreamAtRest ==
  /\ wire = <<>> /\ received = 0 /\ buffer = <<>> /\ calls = <<>>
  /\ streamPc = "unused"

\* no application is submitted
SubmitAtRest ==
  /\ stored = <<>> /\ applications = <<>> /\ submitters = <<>>
  /\ approvals = <<>> /\ clock = 0 /\ saver = <<>>

\* nobody logs in
LoginAtRest ==
  /\ users = <<>> /\ currentUser = Null /\ loginArgs = <<>>
  /\ apiLoginReply = Undefined /\ loginPc = "unused" /\ toast = <<>>
  /\ loginScope = <<>> /\ signupCall = <<>> /\ profileCall = <<>>
  /\ passwordCall = <<>>

\* no version is extracted
VersionAtRest ==
  /\ ollamaReply = Undefined /\ backendReply = Undefined
  /\ versionPc = "unused" /\ extracted = Undefined

ServicesAtRest == StreamAtRest /\ SubmitAtRest /\ LoginAtRest /\ VersionAtRest

\* no caller shares the catalog
CallersAtRest == heap = <<>> /\ callers = <<>>

\* no helper is called
HelperAtRest == callee = "none" /\ args = <<>> /\ returns = <<>>

(***************************************************************************)
(* The state machine: one call of searchFuid.  The arguments are chosen at *)
(* the start; Search runs the call and keeps what it ended with.           *)
(***************************************************************************)
Init ==
  /\ query \in QueryPool
  /\ data \in DataPool
  /\ searchType \in SearchTypePool
  /\ selectedItem \in SelectedItemPool
  /\ result = Return(<<>>)
  /\ pc = "ready"
  /\ CallersAtRest
  /\ HelperAtRest
  /\ ServicesAtRest

Search ==
  /\ pc = "ready"
  /\ result' = searchFuid(query, data, searchType, selectedItem)
  /\ pc' = "returned"
  /\ UNCHANGED <<query, data, searchType, selectedItem>>
  /\ UNCHANGED <<heap, callers, callee, args, returns>>
  /\ UNCHANGED serviceVars

Next == Search

Spec == Init /\ [][Next]_vars

(***************************************************************************)
(* The state machine of the callers that search one catalog.  The objects  *)
(* the program holds live in heap: the object of identity i is heap[i].    *)
(* The entries of the catalog are the first objects, in the order of the   *)
(* mapping; data keeps the catalog as the callers supplied it.  A call     *)
(* reads the entries from the heap, makes a new array (line 78) and a new  *)
(* object for every row it pushes (the object literals of lines 87, 114,   *)
(* 143, 206, 233, 279 and 308) and sorts that array in place; it assigns   *)
(* to nothing else.  A call runs to its end before another one starts: the *)
(* function is synchronous.  What a call that raises has made is out of    *)
(* reach and is left out of the heap.                                      *)
(***************************************************************************)
Callers == {"a", "b"}

Object(fields) == [kind |-> "object", fields |-> fields]

Array(items) == [kind |-> "array", items |-> items]

\* the heap that holds the entries of the catalog and nothing else
heapOf(catalog) ==
  [i \in 1..Len(fuidMappingsOf(catalog)) |-> Object(fuidMappingsOf(catalog)[i])]

\* the catalog as a call finds it: catalog gives its shape, h its entries
\* a value that is no object (a number, a string, null) is no object of the
\* heap: it stands in the catalog itself
catalogIn(h, catalog) ==
  LET valueAt(values, i) ==
        IF values[i].type = "object" THEN h[i].fields ELSE values[i]
  IN CASE catalog.fuid_mappings.type = "object" ->
            [fuid_mappings |->
               Mappings([i \in 1..Len(catalog.fuid_mappings.entries) |->
                           valueAt(catalog.fuid_mappings.entries, i)])]
       [] catalog.fuid_mappings.type = "array" ->
            [fuid_mappings |->
               ArrayOf([i \in 1..Len(catalog.fuid_mappings.items) |->
                          valueAt(catalog.fuid_mappings.items, i)])]
       [] OTHER -> catalog

\* the rows of the array of identity list
rowsOf(h, list) ==
  [k \in 1..Len(h[list].items) |-> h[h[list].items[k]].fields]

\* a variant that keeps one array for all calls: a results array declared
\* outside the function
newArray_ModuleLevel(h, cs) ==
  IF \E c \in DOMAIN cs : cs[c].list # 0
    THEN cs[CHOOSE c \in DOMAIN cs : cs[c].list # 0].list
    ELSE Len(h) + 1

\* const results = [], line 78: the identity of a new array
newArray(h, cs) == Len(h) + 1

\* the heap after the call has filled and sorted its array
heapAfter(h, list, rows) ==
  LET base == IF list \in DOMAIN h THEN h ELSE Append(h, Array(<<>>))
      items == [k \in 1..Len(rows) |-> Len(base) + k]
  IN [base EXCEPT ![list] = Array(items)]
       \o [k \in 1..Len(rows) |-> Object(rows[k])]

\* the arguments the callers share: a query for every stage of the search
SharedQueryPool ==
  { Str(<<"f","u","i","d","-","a","1">>),
    Str(<<"A","c","m","e">>),
    Str(<<"g","i","z","m","o","!">>),
    Str(<<"A","k","m","e">>),
    Str(<<"g","i","z","m","o","z">>),
    Num(42) }

SharedSelectedItemPool == {Undefined, Str(<<"G","I","Z","M","O">>)}

CallersInit ==
  /\ query \in SharedQueryPool
  /\ data \in DataPool
  /\ searchType \in SearchTypePool
  /\ selectedItem \in SharedSelectedItemPool
  /\ heap = heapOf(data)
  /\ callers = [c \in Callers |->
                  [pc |-> "ready", threw |-> FALSE, list |-> 0, value |-> <<>>]]
  /\ result = Return(<<>>)
  /\ pc = "unused"
  /\ HelperAtRest
  /\ ServicesAtRest

\* caller c calls searchFuid; value keeps the rows as the call returned them
Call(c) ==
  /\ callers[c].pc = "ready"
  /\ LET out == searchFuid(query, catalogIn(heap, data), searchType, selectedItem)
         list == newArray(heap, callers)
     IN IF out.threw
          THEN /\ heap' = heap
               /\ callers' = [callers EXCEPT ![c] =
                    [pc |-> "returned", threw |-> TRUE, list |-> 0, value |-> <<>>]]
          ELSE /\ heap' = heapAfter(heap, list, out.value)
               /\ callers' = [callers EXCEPT ![c] =
                    [pc |-> "returned", threw |-> FALSE, list |-> list,
                     value |-> out.value]]
  /\ UNCHANGED <<query, data, searchType, selectedItem>>
  /\ UNCHANGED <<result, pc, callee, args, returns>>
  /\ UNCHANGED serviceVars

CallersNext == \E c \in Callers : Call(c)

CallersSpec == CallersInit /\ [][CallersNext]_vars

(***************************************************************************)
(* The state machine of a call of a helper: callee is the function, args   *)
(* its arguments, returns what its calls have ended with so far.  The      *)
(* scorer functions are called with strings only, as searchEngine.js does. *)
(***************************************************************************)
\* the strings of at most n characters of the set alphabet
StringsOver(alphabet, n) == UNION {[1..k -> alphabet] : k \in 0..n}

\* letters in both cases, and the capital whose lower case is longer
ScorerAlphabet == {"a", "A", "U+0130"}

ScorerCalls ==
  {[callee |-> f, args |-> <<s1, s2>>] :
     f \in {"calculateStringDistance", "calculateFuzzyScore"},
     s1 \in StringsOver(ScorerAlphabet, MaxStringLen),
     s2 \in StringsOver(ScorerAlphabet, MaxStringLen)}

\* letters, a digit, white space, punctuation the normalizer removes and
\* keeps, and an accented capital
NormalizerAlphabet == {"a", "A", "7", " ", "\t", "-", ".", "_", "U+00C9"}

NormalizerCalls ==
  {[callee |-> "normalizeText", args |-> <<text>>] :
     text \in {Str(t) : t \in StringsOver(NormalizerAlphabet, MaxTextLen)}
               \cup {Undefined, Num(0), Num(42)}}

\* letters in both cases, a digit, white space and punctuation
CompanyNameAlphabet == {"a", "Z", "7", " ", "\t", "-"}

CompanyNamePool ==
  {Str(name) : name \in StringsOver(CompanyNameAlphabet, MaxNameLen)}
    \cup { Str(<<"A","m","a","z","o","n"," ","W","e","b"," ",
                 "S","e","r","v","i","c","e","s">>),
           Str(<<"a","b","-","c","d","\t","e","f">>),
           Undefined, Num(0), Num(42) }

CounterPool == {Num(7), Num(12345), Num(123456)}

CompanyIdCalls ==
  {[callee |-> "generateCompanyId", args |-> <<companyName, counter>>] :
     companyName \in CompanyNamePool, counter \in CounterPool}

\* digits, the dot, white space and a letter
VersionAlphabet == {"2", ".", " ", "a"}

VersionPool ==
  {Str(version) : version \in StringsOver(VersionAlphabet, MaxVersionLen)}
    \cup { Str(NoVersionFound),
           Str(toLowerCase(NoVersionFound)),
           Str(<<"N","o"," ","V","e","r","s","i","o","n"," ","F","o","u","n","d">>),
           Str(<<" ">> \o NoVersionFound),
           Str(<<"2","2",".","7">>),
           Str(<<"1",".","\t","0"," ","2">>),
           Undefined, Num(5) }

FuidCalls ==
  {[callee |-> "generateFuid", args |-> <<companyId, productId, version>>] :
     companyId \in { Str(<<"A","M","A","Z","O",":","0","0","0","0","7">>),
                     Str(<<"U","N","K","N","O","W","N","0","0","0","0","1">>) },
     productId \in {Str(<<"0","0","0","1">>)},
     version \in VersionPool}

VersionCalls ==
  {[callee |-> "formatVersionForFuid", args |-> <<version>>] :
     version \in VersionPool}

HelperCalls ==
  ScorerCalls \cup NormalizerCalls \cup CompanyIdCalls \cup FuidCalls
    \cup VersionCalls

\* the search is not running
SearchAtRest ==
  /\ query = Undefined
  /\ data = [fuid_mappings |-> Undefined]
  /\ searchType = Undefined
  /\ selectedItem = Undefined
  /\ result = Return(<<>>)
  /\ pc = "unused"

HelperInit ==
  /\ \E call \in HelperCalls : callee = call.callee /\ args = call.args
  /\ returns = <<>>
  /\ SearchAtRest
  /\ CallersAtRest
  /\ ServicesAtRest

CalculateStringDistance ==
  /\ callee = "calculateStringDistance"
  /\ returns = <<>>
  /\ returns' = <<Return(calculateStringDistance(args[1], args[2]))>>
  /\ UNCHANGED <<callee, args>>
  /\ UNCHANGED <<query, data, searchType, selectedItem, result, pc, heap, callers>>
  /\ UNCHANGED serviceVars

CalculateFuzzyScore ==
  /\ callee = "calculateFuzzyScore"
  /\ returns = <<>>
  /\ returns' = <<Return(calculateFuzzyScore(args[1], args[2]))>>
  /\ UNCHANGED <<callee, args>>
  /\ UNCHANGED <<query, data, searchType, selectedItem, result, pc, heap, callers>>
  /\ UNCHANGED serviceVars

NormalizeText ==
  /\ callee = "normalizeText"
  /\ returns = <<>>
  /\ returns' = <<Return(normalizeText(args[1]))>>
  /\ UNCHANGED <<callee, args>>
  /\ UNCHANGED <<query, data, searchType, selectedItem, result, pc, heap, callers>>
  /\ UNCHANGED serviceVars

\* normalizeText is called with the text its first call returned
NormalizeTextAgain ==
  /\ callee = "normalizeText"
  /\ Len(returns) = 1
  /\ returns' = Append(returns, Return(normalizeText(Str(returns[1].value))))
  /\ UNCHANGED <<callee, args>>
  /\ UNCHANGED <<query, data, searchType, selectedItem, result, pc, heap, callers>>
  /\ UNCHANGED serviceVars

GenerateCompanyId ==
  /\ callee = "generateCompanyId"
  /\ returns = <<>>
  /\ returns' = <<Return(generateCompanyId(args[1], args[2]))>>
  /\ UNCHANGED <<callee, args>>
  /\ UNCHANGED <<query, data, searchType, selectedItem, result, pc, heap, callers>>
  /\ UNCHANGED serviceVars

GenerateFuid ==
  /\ callee = "generateFuid"
  /\ returns = <<>>
  /\ returns' = <<Return(generateFuid(args[1], args[2], args[3]))>>
  /\ UNCHANGED <<callee, args>>
  /\ UNCHANGED <<query, data, searchType, selectedItem, result, pc, heap, callers>>
  /\ UNCHANGED serviceVars

FormatVersionForFuid ==
  /\ callee = "formatVersionForFuid"
  /\ returns = <<>>
  /\ returns' = <<formatVersionForFuid(args[1])>>
  /\ UNCHANGED <<callee, args>>
  /\ UNCHANGED <<query, data, searchType, selectedItem, result, pc, heap, callers>>
  /\ UNCHANGED serviceVars

HelperNext ==
  \/ CalculateStringDistance
  \/ CalculateFuzzyScore
  \/ NormalizeText
  \/ NormalizeTextAgain
  \/ GenerateCompanyId
  \/ GenerateFuid
  \/ FormatVersionForFuid

HelperSpec == HelperInit /\ [][HelperNext]_vars

(***************************************************************************)
(* api.js: sendRAGMessageStream.  The body of the response is a text of    *)
(* lines; the characters of the model are the characters of "data: ", the  *)
(* line feed, and one character for each JSON text the server sends.  The  *)
(* network delivers the text in chunks cut at any place.                   *)
(***************************************************************************)
\* the most lines a server stream has
MaxEvents == 2

LineFeed == "\n"

DataPrefix == <<"d","a","t","a",":"," ">>

\* a text as one value, for messages and answers
Text(t) == Str(<<t>>)

\* the object a JSON text stands for
Event(error, context_used, chunk, done, full_response) ==
  [type |-> "object", error |-> error, context_used |-> context_used,
   chunk |-> chunk, done |-> done, full_response |-> full_response]

Sources == [type |-> "object", entries |-> <<"doc-1">>]

\* the JSON texts of the events; "{" is no JSON text
JsonValue ==
  [t \in {"{chunk}", "{context_used}", "{done}", "{done,context_used}",
          "{done,chunk}", "{error}"} |->
     CASE t = "{chunk}" ->
            Event(Undefined, Undefined, Text("Hi"), Undefined, Text("Hi"))
       [] t = "{context_used}" ->
            Event(Undefined, Sources, Undefined, Undefined, Undefined)
       [] t = "{done}" ->
            Event(Undefined, Undefined, Undefined, Bool(TRUE), Text("Hi all"))
       [] t = "{done,context_used}" ->
            Event(Undefined, Sources, Undefined, Bool(TRUE), Text("Hi all"))
       [] t = "{done,chunk}" ->
            Event(Undefined, Undefined, Text("all"), Bool(TRUE), Text("Hi all"))
       [] t = "{error}" ->
            Event(Text("boom"), Undefined, Undefined, Undefined, Undefined)]

JsonTexts == DOMAIN JsonValue \cup {"{"}

\* JSON.parse: the white space of JSON around the text is skipped; a thrown
\* SyntaxError has value <<>>
JSONparse(text) ==
  LET isBlank(c) == c \in {" ", "\t", "\n", "\r"}
      blanksBefore ==
        Cardinality({i \in 1..Len(text) : \A j \in 1..i : isBlank(text[j])})
      blanksBehind ==
        Cardinality({i \in 1..Len(text) : \A j \in i..Len(text) : isBlank(text[j])})
      json == SubSeq(text, blanksBefore + 1, Len(text) - blanksBehind)
  IN IF Len(json) = 1 /\ json[1] \in DOMAIN JsonValue
       THEN [threw |-> FALSE, value |-> JsonValue[json[1]]]
       ELSE [threw |-> TRUE, value |-> <<>>]

\* String.prototype.slice(start), start counted from 0
slice(s, start) == SubSeq(s, start + 1, Len(s))

\* the calls of the callbacks
onChunkContext(contextUsed) ==
  [fn |-> "onChunk", args |-> <<[type |-> "context", data |-> contextUsed]>>]

onChunkText(chunk, fullResponse) ==
  [fn |-> "onChunk",
   args |-> <<[type |-> "text", data |-> chunk, fullResponse |-> fullResponse]>>]

onComplete(fullResponse, contextUsed) ==
  [fn |-> "onComplete", args |-> <<fullResponse, contextUsed>>]

onError(message) == [fn |-> "onError", args |-> <<message>>]

\* the for loop of lines 350-376 over the complete lines; called is the
\* calls made so far, returned tells that the function returned in the loop
RECURSIVE processLines(_, _)
processLines(lines, called) ==
  IF lines = <<>> THEN [calls |-> called, returned |-> FALSE]
  ELSE
    LET line == Head(lines)
        parsed == JSONparse(slice(line, 6))
        event == parsed.value
    IN IF ~startsWith(line, DataPrefix) \/ parsed.threw
         THEN processLines(Tail(lines), called)
       ELSE IF Truthy(event.error)
         THEN [calls |-> Append(called, onError(event.error)), returned |-> TRUE]
       ELSE IF Truthy(event.context_used)
         THEN processLines(Tail(lines),
                Append(called, onChunkContext(event.context_used)))
       ELSE IF Truthy(event.chunk)
         THEN processLines(Tail(lines),
                Append(called, onChunkText(event.chunk, event.full_response)))
       ELSE IF Truthy(event.done)
         THEN [calls |-> Append(called,
                           onComplete(event.full_response, event.context_used)),
               returned |-> TRUE]
       ELSE processLines(Tail(lines), called)

\* the lines a server sends: an event, an event with white space around its
\* JSON text (a line that ends with a carriage return), or a blank line
LinePool ==
  {<<>>} \cup {DataPrefix \o <<j>> : j \in JsonTexts}
         \cup {DataPrefix \o <<" ", "{chunk}", "\r">>}

\* the bodies: up to MaxEvents lines with line feeds between them, the last
\* one with or without a line feed behind it
ServerStreams ==
  {join(ls, <<LineFeed>>) \o end :
     ls \in UNION {[1..n -> LinePool] : n \in 0..MaxEvents},
     end \in {<<>>, <<LineFeed>>}}

StreamInit ==
  /\ wire \in ServerStreams
  /\ received = 0
  /\ buffer = <<>>
  /\ calls = <<>>
  /\ streamPc = "fetch"
  /\ query = Undefined
  /\ data = [fuid_mappings |-> Undefined]
  /\ searchType = Undefined
  /\ selectedItem = Undefined
  /\ result = Return(<<>>)
  /\ pc = "unused"
  /\ CallersAtRest
  /\ HelperAtRest
  /\ SubmitAtRest
  /\ LoginAtRest
  /\ VersionAtRest

\* fetch rejects: the catch of line 378 reports the message
FetchRejects ==
  /\ streamPc = "fetch"
  /\ calls' = Append(calls, onError(Text("Failed to fetch")))
  /\ streamPc' = "settled"
  /\ UNCHANGED <<wire, received, buffer>>
  /\ UNCHANGED <<searchVars, submitVars, loginVars, versionVars>>

\* the response is not ok: line 332 throws, the catch reports it
FetchNotOk ==
  /\ streamPc = "fetch"
  /\ calls' = Append(calls, onError(Text("HTTP error! status: 500")))
  /\ streamPc' = "settled"
  /\ UNCHANGED <<wire, received, buffer>>
  /\ UNCHANGED <<searchVars, submitVars, loginVars, versionVars>>

FetchOk ==
  /\ streamPc = "fetch"
  /\ streamPc' = "reading"
  /\ UNCHANGED <<wire, received, buffer, calls>>
  /\ UNCHANGED <<searchVars, submitVars, loginVars, versionVars>>

\* reader.read() gives the next chunk, of any length: lines 344-377
Read ==
  /\ streamPc = "reading"
  /\ received < Len(wire)
  /\ \E n \in 1..(Len(wire) - received) :
       LET value == SubSeq(wire, received + 1, received + n)
           lines == split(buffer \o value, LineFeed)
           out == processLines(SubSeq(lines, 1, Len(lines) - 1), calls)
       IN /\ received' = received + n
          /\ buffer' = lines[Len(lines)]
          /\ calls' = out.calls
          /\ streamPc' = IF out.returned THEN "settled" ELSE "reading"
  /\ UNCHANGED wire
  /\ UNCHANGED <<searchVars, submitVars, loginVars, versionVars>>

\* reader.read() tells that the stream has ended: the loop is left and the
\* function returns
ReadDone ==
  /\ streamPc = "reading"
  /\ received = Len(wire)
  /\ streamPc' = "settled"
  /\ UNCHANGED <<wire, received, buffer, calls>>
  /\ UNCHANGED <<searchVars, submitVars, loginVars, versionVars>>

\* reader.read() rejects, the connection being lost: the catch reports it
ReadRejects ==
  /\ streamPc = "reading"
  /\ calls' = Append(calls, onError(Text("network error")))
  /\ streamPc' = "settled"
  /\ UNCHANGED <<wire, received, buffer>>
  /\ UNCHANGED <<searchVars, submitVars, loginVars, versionVars>>

StreamNext ==
  FetchRejects \/ FetchNotOk \/ FetchOk \/ Read \/ ReadDone \/ ReadRejects

StreamSpec == StreamInit /\ [][StreamNext]_vars

(***************************************************************************)
(* ApplicationsContext.js: addNewApplication, called by several submitters *)
(* against one backend, and deleteApplication; saveData of api.js writes   *)
(* to the same data.  The backend answers GET /data with the data it       *)
(* persists and replaces them by the body of POST /data; any request may   *)
(* fail; a call stands still while a request of it is on the way.          *)
(***************************************************************************)
\* the most calls of addNewApplication that run together
MaxSubmitters == 2

Submitters == 1..MaxSubmitters

\* the latest millisecond Date.now() reads
MaxClock == 2

\* Array.isArray
isArray(v) == v.type = "array"

\* the application a call builds, lines 32-48: the id is the reading of the
\* clock, the company name the argument of the call
newApplication(companyName, now) ==
  [type |-> "object", id |-> now, companyName |-> companyName,
   status |-> "submitted"]

\* an application the backend holds from before
EarlierApplication ==
  [type |-> "object", id |-> 0, companyName |-> 0, status |-> "approved"]

\* the applications field of the data the backend holds at the start
StoredPool == {Undefined, ArrayOf(<<>>), ArrayOf(<<EarlierApplication>>)}

SubmitInit ==
  /\ stored \in StoredPool
  /\ clock = 1
  /\ applications = <<>>
  /\ approvals = <<>>
  /\ submitters =
       [s \in Submitters |->
          [pc |-> "idle", application |-> Undefined, data |-> Undefined,
           caught |-> {}]]
  /\ saver = [pc |-> "idle", data |-> Undefined]
  /\ query = Undefined
  /\ data = [fuid_mappings |-> Undefined]
  /\ searchType = Undefined
  /\ selectedItem = Undefined
  /\ result = Return(<<>>)
  /\ pc = "unused"
  /\ CallersAtRest
  /\ HelperAtRest
  /\ StreamAtRest
  /\ LoginAtRest
  /\ VersionAtRest

\* the call up to its first await: Date.now() reads the clock, which has
\* stood still or gone on since the last reading; the provider's list gets
\* the application in front, and GET /data is sent
AddNewApplication(s) ==
  /\ submitters[s].pc = "idle"
  /\ \E now \in {clock, clock + 1} :
       /\ now <= MaxClock
       /\ clock' = now
       /\ applications' = <<newApplication(s, now)>> \o applications
       /\ submitters' = [submitters EXCEPT
            ![s] = [@ EXCEPT !.pc = "get",
                             !.application = newApplication(s, now)]]
  /\ UNCHANGED <<stored, approvals, saver>>
  /\ UNCHANGED <<searchVars, streamVars, loginVars, versionVars>>

\* the backend answers GET /data; the call puts its application in front of
\* the applications it was given and sends the data back with POST /data
GetData(s) ==
  /\ submitters[s].pc = "get"
  /\ LET apps == IF isArray(stored) THEN stored.items ELSE <<>>
     IN submitters' = [submitters EXCEPT
          ![s] = [@ EXCEPT !.pc = "post",
                           !.data = ArrayOf(<<submitters[s].application>> \o apps)]]
  /\ UNCHANGED <<stored, applications, approvals, clock, saver>>
  /\ UNCHANGED <<searchVars, streamVars, loginVars, versionVars>>

\* GET /data fails: the catch of line 58 goes on to the approvals
GetDataFails(s) ==
  /\ submitters[s].pc = "get"
  /\ submitters' = [submitters EXCEPT
       ![s] = [@ EXCEPT !.pc = "approvals", !.caught = @ \cup {"data"}]]
  /\ UNCHANGED <<stored, applications, approvals, clock, saver>>
  /\ UNCHANGED <<searchVars, streamVars, loginVars, versionVars>>

\* the backend takes POST /data: it persists the body; the call sends
\* POST /approvals/submit
PostData(s) ==
  /\ submitters[s].pc = "post"
  /\ stored' = submitters[s].data
  /\ submitters' = [submitters EXCEPT ![s].pc = "approvals"]
  /\ UNCHANGED <<applications, approvals, clock, saver>>
  /\ UNCHANGED <<searchVars, streamVars, loginVars, versionVars>>

\* POST /data fails: the same catch of line 58 goes on to the approvals
PostDataFails(s) ==
  /\ submitters[s].pc = "post"
  /\ submitters' = [submitters EXCEPT
       ![s] = [@ EXCEPT !.pc = "approvals", !.caught = @ \cup {"data"}]]
  /\ UNCHANGED <<stored, applications, approvals, clock, saver>>
  /\ UNCHANGED <<searchVars, streamVars, loginVars, versionVars>>

\* the backend takes POST /approvals/submit, and the call ends
SubmitApproval(s) ==
  /\ submitters[s].pc = "approvals"
  /\ approvals' = Append(approvals, submitters[s].application)
  /\ submitters' = [submitters EXCEPT ![s].pc = "done"]
  /\ UNCHANGED <<stored, applications, clock, saver>>
  /\ UNCHANGED <<searchVars, streamVars, loginVars, versionVars>>

\* POST /approvals/submit fails: the catch of line 65 ends the call
SubmitApprovalFails(s) ==
  /\ submitters[s].pc = "approvals"
  /\ submitters' = [submitters EXCEPT
       ![s] = [@ EXCEPT !.pc = "done", !.caught = @ \cup {"approvals"}]]
  /\ UNCHANGED <<stored, applications, approvals, clock, saver>>
  /\ UNCHANGED <<searchVars, streamVars, loginVars, versionVars>>

\* deleteApplication, lines 70-72, called by StatusPage.js:127 with the id
\* of an application of the list: every application of that id goes
DeleteApplication(applicationId) ==
  /\ \E k \in 1..Len(applications) : applications[k].id = applicationId
  /\ applications' = SelectSeq(applications, LAMBDA app : app.id # applicationId)
  /\ UNCHANGED <<stored, submitters, approvals, clock, saver>>
  /\ UNCHANGED <<searchVars, streamVars, loginVars, versionVars>>

\* saveData of api.js, lines 80-82: POST /data is sent with the data given
SaveData(given) ==
  /\ saver.pc = "idle"
  /\ saver' = [pc |-> "posting", data |-> given]
  /\ UNCHANGED <<stored, applications, submitters, approvals, clock>>
  /\ UNCHANGED <<searchVars, streamVars, loginVars, versionVars>>

\* the backend takes the POST /data of saveData: it persists the body
SaveDataPosted ==
  /\ saver.pc = "posting"
  /\ stored' = saver.data
  /\ saver' = [saver EXCEPT !.pc = "returned"]
  /\ UNCHANGED <<applications, submitters, approvals, clock>>
  /\ UNCHANGED <<searchVars, streamVars, loginVars, versionVars>>

\* the POST /data of saveData fails: lines 84-86 throw the error again
SaveDataFails ==
  /\ saver.pc = "posting"
  /\ saver' = [saver EXCEPT !.pc = "threw"]
  /\ UNCHANGED <<stored, applications, submitters, approvals, clock>>
  /\ UNCHANGED <<searchVars, streamVars, loginVars, versionVars>>

SubmitNext ==
  \/ \E s \in Submitters :
       \/ AddNewApplication(s)
       \/ GetData(s)
       \/ GetDataFails(s)
       \/ PostData(s)
       \/ PostDataFails(s)
       \/ SubmitApproval(s)
       \/ SubmitApprovalFails(s)
  \/ \E applicationId \in 1..MaxClock : DeleteApplication(applicationId)
  \/ \E given \in StoredPool : SaveData(given)
  \/ SaveDataPosted
  \/ SaveDataFails

SubmitSpec == SubmitInit /\ [][SubmitNext]_vars

(***************************************************************************)
(* AuthContext.js: the provider of users and currentUser.  login is called *)
(* by handleSubmit of Login.js, signup by handleSubmit of Signup.js,       *)
(* logout by App.js, updateProfile and changePassword by the profile page  *)
(* of Login.js.  The backend answers a request with data or the request    *)
(* fails; the provider keeps the users of the browser's storage for the    *)
(* local fallback.  A call stands still at each of its awaits, and reads   *)
(* users and currentUser as they were in the render it was made in; the    *)
(* updater functions it hands to setUsers and setCurrentUser read the      *)
(* state as it is.                                                         *)
(***************************************************************************)
\* String.prototype.endsWith
endsWith(s, suffix) ==
  /\ Len(s) >= Len(suffix)
  /\ SubSeq(s, Len(s) - Len(suffix) + 1, Len(s)) = suffix

\* isBlockedDomain, AuthContext.js:56, Login.js:14 and Signup.js:26
isBlockedDomain(email) ==
  endsWith(toLowerCase(trim(email.chars)),
           <<"@","g","m","a","i","l",".","c","o","m">>)

\* emailRegex.test, AuthContext.js:55 and Signup.js:19: characters that are
\* neither white space nor "@", with one "@" among them and a "." behind
\* it that has a character on either side
emailRegex(s) ==
  \E i \in 2..Len(s) :
    /\ s[i] = "@"
    /\ \A k \in (1..Len(s)) \ {i} : s[k] \notin WhiteSpace \cup {"@"}
    /\ \E j \in (i + 2)..(Len(s) - 1) : s[j] = "."

\* hashStringSHA256: the hash of a password, no two passwords sharing one
hashStringSHA256(password) == Str(<<"sha256">> \o password.chars)

User(email, passwordHash, lastLogin) ==
  [type |-> "object", email |-> email, passwordHash |-> passwordHash,
   lastLogin |-> lastLogin]

\* { ...object, ...updates }
spread(object, updates) ==
  [f \in DOMAIN object \cup DOMAIN updates |->
     IF f \in DOMAIN updates THEN updates[f] ELSE object[f]]

\* prev.map(u => (u.email === email ? change(u) : u)), where changed[i] is
\* what change gives for the user at i
mapUsers(prev, email, changed) ==
  [i \in 1..Len(prev) |-> IF prev[i].email = email THEN changed[i] ELSE prev[i]]

\* a toast of react-hot-toast, by the component that showed it
Toast(kind, component) == [kind |-> kind, component |-> component]

\* the inputs: emails with a case variant, a blocked address and one nobody
\* signed up with; two passwords and one that is too short
EmailPool ==
  { Str(<<"a","@","x",".","i","o">>),
    Str(<<"A","@","x",".","i","o">>),
    Str(<<"e","@","x",".","i","o">>),
    Str(<<"a","@","G","m","a","i","l",".","c","o","m"," ">>) }

FirstPassword == Str(<<"p","a","s","s","w","o","r","d","1">>)

SecondPassword == Str(<<"p","a","s","s","w","o","r","d","2">>)

ShortPassword == Str(<<"p","w">>)

PasswordPool == {FirstPassword, SecondPassword}

\* the users of the storage: a user who signed up locally, with the hash of
\* the first password, and the same user signed up through the backend
LocalUser ==
  User(Str(<<"a","@","x",".","i","o">>), hashStringSHA256(FirstPassword),
       Text("earlier"))

RemoteUser ==
  User(Str(<<"a","@","x",".","i","o">>), Text("remote"), Text("earlier"))

UsersPool == {<<>>, <<LocalUser>>, <<RemoteUser>>, <<RemoteUser, LocalUser>>}

\* what the backend answers: the request fails, or data
Rejects == [type |-> "rejects"]

LoginData(success, user) == [type |-> "object", success |-> success, user |-> user]

ApiLoginReplies(email) ==
  { Rejects,
    LoginData(Bool(TRUE), User(email, Undefined, Text("now"))),
    LoginData(Bool(TRUE), Undefined),
    LoginData(Bool(FALSE), Undefined),
    Null }

\* what the backend answers to /auth/signup when the request does not fail
ApiSignupReplies(email) ==
  { LoginData(Bool(TRUE), User(email, Undefined, Text("now"))),
    LoginData(Bool(FALSE), Undefined) }

\* the fields of the profile page, Login.js:182-185
UpdatesPool == {[firstName |-> Text("Ann"), lastName |-> Text("Lee")]}

\* what the backend answers to /auth/profile when the request does not fail
ApiUpdateProfileReplies(user, updates) ==
  { LoginData(Bool(TRUE), spread(user, updates)),
    LoginData(Bool(FALSE), Undefined) }

\* what the forms of Signup.js and of the profile page are filled with
SignupForms ==
  [email : EmailPool, password : {FirstPassword, ShortPassword},
   confirmPassword : {FirstPassword, ShortPassword}]

PasswordForms ==
  [currentPassword : PasswordPool, newPassword : {SecondPassword, ShortPassword}]

\* res?.success && res?.user
SuccessWithUser(res) ==
  res.type = "object" /\ Truthy(res.success) /\ Truthy(res.user)

\* users.find(u => u.email.toLowerCase() === email.toLowerCase()): the place
\* of the first such user, 0 if there is none
findUser(list, email) ==
  LET hits == {i \in 1..Len(list) :
                 toLowerCase(list[i].email.chars) = toLowerCase(email.chars)}
  IN IF hits = {} THEN 0 ELSE CHOOSE i \in hits : \A j \in hits : i <= j

\* users.find(u => u.email === email), AuthContext.js:139
findUserOfEmail(list, email) ==
  LET hits == {i \in 1..Len(list) : list[i].email = email}
  IN IF hits = {} THEN 0 ELSE CHOOSE i \in hits : \A j \in hits : i <= j

\* no call of the provider is on the way
NoCall == [pc |-> "idle"]

LoginInit ==
  /\ loginArgs \in [email : EmailPool, password : PasswordPool]
  /\ users \in UsersPool
  /\ apiLoginReply \in ApiLoginReplies(loginArgs.email)
  /\ currentUser = Null
  /\ loginPc = "form"
  /\ loginScope = <<>>
  /\ signupCall = NoCall
  /\ profileCall = NoCall
  /\ passwordCall = NoCall
  /\ toast = <<>>
  /\ query = Undefined
  /\ data = [fuid_mappings |-> Undefined]
  /\ searchType = Undefined
  /\ selectedItem = Undefined
  /\ result = Return(<<>>)
  /\ pc = "unused"
  /\ CallersAtRest
  /\ HelperAtRest
  /\ StreamAtRest
  /\ SubmitAtRest
  /\ VersionAtRest

\* handleSubmit of Login.js up to its await, lines 16-20: the timer is set.
\* login is the function of the render the form was last drawn in, and
\* reads the users of that render
HandleSubmit ==
  /\ loginPc = "form"
  /\ loginPc' = "waiting"
  /\ loginScope' = users
  /\ UNCHANGED <<users, currentUser, loginArgs, apiLoginReply, toast>>
  /\ UNCHANGED <<signupCall, profileCall, passwordCall>>
  /\ UNCHANGED <<searchVars, streamVars, submitVars, versionVars>>

\* the timer fires and the address is blocked: login is not called,
\* Login.js:23-25 and 28-29
HandleSubmitBlocked ==
  /\ loginPc = "waiting"
  /\ isBlockedDomain(loginArgs.email)
  /\ toast' = Append(toast, Toast("error", "Login"))
  /\ loginPc' = "not called"
  /\ UNCHANGED <<users, currentUser, loginArgs, apiLoginReply, loginScope>>
  /\ UNCHANGED <<signupCall, profileCall, passwordCall>>
  /\ UNCHANGED <<searchVars, streamVars, submitVars, versionVars>>

\* the timer fires and handleSubmit calls login, which calls apiLogin:
\* Login.js:26 and AuthContext.js:92
CallLogin ==
  /\ loginPc = "waiting"
  /\ ~isBlockedDomain(loginArgs.email)
  /\ loginPc' = "calling"
  /\ UNCHANGED <<users, currentUser, loginArgs, apiLoginReply, toast, loginScope>>
  /\ UNCHANGED <<signupCall, profileCall, passwordCall>>
  /\ UNCHANGED <<searchVars, streamVars, submitVars, versionVars>>

\* apiLogin resolves: AuthContext.js:92-96, and the end of the function
ApiLoginResolves ==
  /\ loginPc = "calling"
  /\ apiLoginReply # Rejects
  /\ IF SuccessWithUser(apiLoginReply)
       THEN /\ currentUser' = apiLoginReply.user
            /\ loginPc' = "returned true"
       ELSE /\ currentUser' = currentUser
            /\ loginPc' = "returned undefined"
  /\ UNCHANGED <<users, loginArgs, apiLoginReply, toast, loginScope>>
  /\ UNCHANGED <<signupCall, profileCall, passwordCall>>
  /\ UNCHANGED <<searchVars, streamVars, submitVars, versionVars>>

\* apiLogin rejects: the local fallback of AuthContext.js:97-102 looks for
\* the user among the users of its render and asks for the hash
ApiLoginRejects ==
  /\ loginPc = "calling"
  /\ apiLoginReply = Rejects
  /\ loginPc' =
       IF \/ isBlockedDomain(loginArgs.email)
          \/ findUser(loginScope, loginArgs.email) = 0
         THEN "threw" ELSE "hashing"
  /\ UNCHANGED <<users, currentUser, loginArgs, apiLoginReply, toast, loginScope>>
  /\ UNCHANGED <<signupCall, profileCall, passwordCall>>
  /\ UNCHANGED <<searchVars, streamVars, submitVars, versionVars>>

\* the hash is there: AuthContext.js:102-107.  The user that was found is
\* written over the users of that email as they are now
LoginHashed ==
  /\ loginPc = "hashing"
  /\ LET user == loginScope[findUser(loginScope, loginArgs.email)]
         updated == spread(user, [lastLogin |-> Text("now")])
     IN IF user.passwordHash # hashStringSHA256(loginArgs.password)
          THEN /\ loginPc' = "threw"
               /\ UNCHANGED <<users, currentUser>>
          ELSE /\ users' = mapUsers(users, user.email,
                                    [i \in 1..Len(users) |-> updated])
               /\ currentUser' = spread(updated, [passwordHash |-> Undefined])
               /\ loginPc' = "returned true"
  /\ UNCHANGED <<loginArgs, apiLoginReply, toast, loginScope>>
  /\ UNCHANGED <<signupCall, profileCall, passwordCall>>
  /\ UNCHANGED <<searchVars, streamVars, submitVars, versionVars>>

\* handleSubmit after the await: Login.js:27-29
ShowToast ==
  /\ loginPc \in {"returned true", "returned undefined", "threw"}
  /\ \A k \in 1..Len(toast) : toast[k].component # "Login"
  /\ toast' = Append(toast, Toast(IF loginPc = "threw" THEN "error" ELSE "success",
                                  "Login"))
  /\ UNCHANGED <<users, currentUser, loginArgs, apiLoginReply, loginPc, loginScope>>
  /\ UNCHANGED <<signupCall, profileCall, passwordCall>>
  /\ UNCHANGED <<searchVars, streamVars, submitVars, versionVars>>

\* the most toasts a run shows
MaxToasts == 2

\* what handleSubmit of Signup.js lets through, lines 30-45
FormPasses(form) ==
  /\ emailRegex(form.email.chars)
  /\ ~isBlockedDomain(form.email)
  /\ Len(form.password.chars) >= 8
  /\ form.password = form.confirmPassword

\* the forms handleSubmit of Signup.js lets through, and those it turns down
PassingForms == {form \in SignupForms : FormPasses(form)}

RefusedForms == SignupForms \ PassingForms

\* the button of Signup.js is disabled from line 48 to line 60
SignupLoading == signupCall # NoCall /\ ~signupCall.toasted

\* handleSubmit of Signup.js turns the form down, lines 28-45: it shows the
\* error and returns, and signup is not called
SignupRefused(form) ==
  /\ ~SignupLoading
  /\ form \in RefusedForms
  /\ Len(toast) < MaxToasts
  /\ toast' = Append(toast, Toast("error", "Signup"))
  /\ UNCHANGED <<users, currentUser, loginArgs, apiLoginReply, loginPc>>
  /\ UNCHANGED <<loginScope, signupCall, profileCall, passwordCall>>
  /\ UNCHANGED <<searchVars, streamVars, submitVars, versionVars>>

\* handleSubmit of Signup.js calls signup, which calls apiSignup:
\* Signup.js:28-49 and AuthContext.js:58-61
Signup(form) ==
  /\ signupCall = NoCall
  /\ form \in PassingForms
  /\ signupCall' = [pc |-> "calling", form |-> form, users |-> users,
                    toasted |-> FALSE]
  /\ UNCHANGED <<users, currentUser, loginArgs, apiLoginReply, loginPc, toast>>
  /\ UNCHANGED <<loginScope, profileCall, passwordCall>>
  /\ UNCHANGED <<searchVars, streamVars, submitVars, versionVars>>

\* apiSignup resolves: AuthContext.js:61-65, and the end of the function
ApiSignupResolves ==
  /\ signupCall.pc = "calling"
  /\ \E res \in ApiSignupReplies(signupCall.form.email) :
       IF SuccessWithUser(res)
         THEN /\ users' = <<spread(res.user, [passwordHash |-> Text("remote")])>>
                            \o users
              /\ signupCall' = [signupCall EXCEPT !.pc = "returned true"]
         ELSE /\ users' = users
              /\ signupCall' = [signupCall EXCEPT !.pc = "returned undefined"]
  /\ UNCHANGED <<currentUser, loginArgs, apiLoginReply, loginPc, toast>>
  /\ UNCHANGED <<loginScope, profileCall, passwordCall>>
  /\ UNCHANGED <<searchVars, streamVars, submitVars, versionVars>>

\* apiSignup rejects: the local fallback of AuthContext.js:66-73 tests the
\* form against the users of its render and asks for the hash
ApiSignupRejects ==
  /\ signupCall.pc = "calling"
  /\ LET email == signupCall.form.email
         password == signupCall.form.password
     IN signupCall' = [signupCall EXCEPT !.pc =
          IF \/ ~emailRegex(email.chars)
             \/ isBlockedDomain(email)
             \/ ~Truthy(password) \/ Len(password.chars) < 8
             \/ findUser(signupCall.users, email) # 0
            THEN "threw" ELSE "hashing"]
  /\ UNCHANGED <<users, currentUser, loginArgs, apiLoginReply, loginPc, toast>>
  /\ UNCHANGED <<loginScope, profileCall, passwordCall>>
  /\ UNCHANGED <<searchVars, streamVars, submitVars, versionVars>>

\* the hash is there: AuthContext.js:73-85.  The new user goes in front of
\* the users as they are now
SignupHashed ==
  /\ signupCall.pc = "hashing"
  /\ LET newUser == User(Str(trim(signupCall.form.email.chars)),
                         hashStringSHA256(signupCall.form.password),
                         Text("now"))
     IN users' = <<newUser>> \o users
  /\ signupCall' = [signupCall EXCEPT !.pc = "returned true"]
  /\ UNCHANGED <<currentUser, loginArgs, apiLoginReply, loginPc, toast>>
  /\ UNCHANGED <<loginScope, profileCall, passwordCall>>
  /\ UNCHANGED <<searchVars, streamVars, submitVars, versionVars>>

\* handleSubmit of Signup.js after the await: lines 55-58
ShowSignupToast ==
  /\ signupCall.pc \in {"returned true", "returned undefined", "threw"}
  /\ ~signupCall.toasted
  /\ toast' = Append(toast, Toast(IF signupCall.pc = "threw" THEN "error"
                                  ELSE "success", "Signup"))
  /\ signupCall' = [signupCall EXCEPT !.toasted = TRUE]
  /\ UNCHANGED <<users, currentUser, loginArgs, apiLoginReply, loginPc>>
  /\ UNCHANGED <<loginScope, profileCall, passwordCall>>
  /\ UNCHANGED <<searchVars, streamVars, submitVars, versionVars>>

\* logout, AuthContext.js:111-113, called by App.js:78 of the page a user
\* who is signed in sees
Logout ==
  /\ Truthy(currentUser)
  /\ currentUser' = Null
  /\ UNCHANGED <<users, loginArgs, apiLoginReply, loginPc, toast>>
  /\ UNCHANGED <<loginScope, signupCall, profileCall, passwordCall>>
  /\ UNCHANGED <<searchVars, streamVars, submitVars, versionVars>>

\* updateProfile up to its await, AuthContext.js:115-118; without a current
\* user line 116 returns and nothing changes
UpdateProfile(updates) ==
  /\ profileCall = NoCall
  /\ Truthy(currentUser)
  /\ profileCall' = [pc |-> "calling", updates |-> updates,
                     currentUser |-> currentUser]
  /\ UNCHANGED <<users, currentUser, loginArgs, apiLoginReply, loginPc, toast>>
  /\ UNCHANGED <<loginScope, signupCall, passwordCall>>
  /\ UNCHANGED <<searchVars, streamVars, submitVars, versionVars>>

\* apiUpdateProfile resolves: AuthContext.js:119-123, and the end of the
\* function
ApiUpdateProfileResolves ==
  /\ profileCall.pc = "calling"
  /\ \E res \in ApiUpdateProfileReplies(profileCall.currentUser,
                                         profileCall.updates) :
       IF SuccessWithUser(res)
         THEN /\ currentUser' = res.user
              /\ users' = mapUsers(users, res.user.email,
                   [i \in 1..Len(users) |-> spread(users[i], profileCall.updates)])
         ELSE UNCHANGED <<users, currentUser>>
  /\ profileCall' = [profileCall EXCEPT !.pc = "returned"]
  /\ UNCHANGED <<loginArgs, apiLoginReply, loginPc, toast>>
  /\ UNCHANGED <<loginScope, signupCall, passwordCall>>
  /\ UNCHANGED <<searchVars, streamVars, submitVars, versionVars>>

\* apiUpdateProfile rejects: the fallback of AuthContext.js:124-128
ApiUpdateProfileRejects ==
  /\ profileCall.pc = "calling"
  /\ users' = mapUsers(users, profileCall.currentUser.email,
       [i \in 1..Len(users) |-> spread(users[i], profileCall.updates)])
  /\ currentUser' = IF Truthy(currentUser)
                      THEN spread(currentUser, profileCall.updates)
                      ELSE currentUser
  /\ profileCall' = [profileCall EXCEPT !.pc = "returned"]
  /\ UNCHANGED <<loginArgs, apiLoginReply, loginPc, toast>>
  /\ UNCHANGED <<loginScope, signupCall, passwordCall>>
  /\ UNCHANGED <<searchVars, streamVars, submitVars, versionVars>>

\* handleChangePassword of the profile page calls changePassword, which
\* calls apiChangePassword: Login.js:191-201 and AuthContext.js:131-134;
\* without a current user line 132 throws and nothing changes
ChangePassword(form) ==
  /\ passwordCall = NoCall
  /\ Len(form.newPassword.chars) >= 8
  /\ Truthy(currentUser)
  /\ passwordCall' = [pc |-> "calling", form |-> form, users |-> users,
                      currentUser |-> currentUser]
  /\ UNCHANGED <<users, currentUser, loginArgs, apiLoginReply, loginPc, toast>>
  /\ UNCHANGED <<loginScope, signupCall, profileCall>>
  /\ UNCHANGED <<searchVars, streamVars, submitVars, versionVars>>

\* apiChangePassword resolves with success: AuthContext.js:135
ApiChangePasswordResolves ==
  /\ passwordCall.pc = "calling"
  /\ passwordCall' = [passwordCall EXCEPT !.pc = "returned true"]
  /\ UNCHANGED <<users, currentUser, loginArgs, apiLoginReply, loginPc, toast>>
  /\ UNCHANGED <<loginScope, signupCall, profileCall>>
  /\ UNCHANGED <<searchVars, streamVars, submitVars, versionVars>>

\* apiChangePassword rejects, or resolves without success and line 136
\* throws: the catch of line 137 looks for the user among the users of its
\* render and asks for the hash of the current password, lines 139-140
ApiChangePasswordFails ==
  /\ passwordCall.pc = "calling"
  /\ passwordCall' = [passwordCall EXCEPT !.pc = "hashing current"]
  /\ UNCHANGED <<users, currentUser, loginArgs, apiLoginReply, loginPc, toast>>
  /\ UNCHANGED <<loginScope, signupCall, profileCall>>
  /\ UNCHANGED <<searchVars, streamVars, submitVars, versionVars>>

\* the hash of the current password is there: AuthContext.js:141-143.
\* Reading passwordHash of a user that was not found raises a TypeError
CurrentPasswordHashed ==
  /\ passwordCall.pc = "hashing current"
  /\ LET found == findUserOfEmail(passwordCall.users, passwordCall.currentUser.email)
     IN passwordCall' = [passwordCall EXCEPT !.pc =
          IF found = 0 THEN "threw"
          ELSE IF passwordCall.users[found].passwordHash
                    # hashStringSHA256(passwordCall.form.currentPassword)
            THEN "threw"
          ELSE IF \/ ~Truthy(passwordCall.form.newPassword)
                  \/ Len(passwordCall.form.newPassword.chars) < 8
            THEN "threw"
          ELSE "hashing new"]
  /\ UNCHANGED <<users, currentUser, loginArgs, apiLoginReply, loginPc, toast>>
  /\ UNCHANGED <<loginScope, signupCall, profileCall>>
  /\ UNCHANGED <<searchVars, streamVars, submitVars, versionVars>>

\* the hash of the new password is there: AuthContext.js:143-145
NewPasswordHashed ==
  /\ passwordCall.pc = "hashing new"
  /\ LET found == findUserOfEmail(passwordCall.users, passwordCall.currentUser.email)
         user == passwordCall.users[found]
         newHash == hashStringSHA256(passwordCall.form.newPassword)
     IN users' = mapUsers(users, user.email,
          [i \in 1..Len(users) |-> spread(users[i], [passwordHash |-> newHash])])
  /\ passwordCall' = [passwordCall EXCEPT !.pc = "returned true"]
  /\ UNCHANGED <<currentUser, loginArgs, apiLoginReply, loginPc, toast>>
  /\ UNCHANGED <<loginScope, signupCall, profileCall>>
  /\ UNCHANGED <<searchVars, streamVars, submitVars, versionVars>>

LoginNext ==
  \/ HandleSubmit
  \/ HandleSubmitBlocked
  \/ CallLogin
  \/ ApiLoginResolves
  \/ ApiLoginRejects
  \/ LoginHashed
  \/ ShowToast
  \/ \E form \in SignupForms : Signup(form)
  \/ \E form \in SignupForms : SignupRefused(form)
  \/ ApiSignupResolves
  \/ ApiSignupRejects
  \/ SignupHashed
  \/ ShowSignupToast
  \/ Logout
  \/ \E updates \in UpdatesPool : UpdateProfile(updates)
  \/ ApiUpdateProfileResolves
  \/ ApiUpdateProfileRejects
  \/ \E form \in PasswordForms : ChangePassword(form)
  \/ ApiChangePasswordResolves
  \/ ApiChangePasswordFails
  \/ CurrentPasswordHashed
  \/ NewPasswordHashed

LoginSpec == LoginInit /\ [][LoginNext]_vars

(***************************************************************************)
(* api.js: extractVersionWithOllama.  The call asks Ollama first and the   *)
(* backend in the catch; what the two services answer is chosen at the     *)
(* start.                                                                  *)
(***************************************************************************)
\* a response of axios: the status and the data
Response(status, body) == [type |-> "object", status |-> status, data |-> body]

\* the data of Ollama: an object with or without a response
Generated(response) == [type |-> "object", response |-> response]

\* the data of the backend: an object with or without a version
Extracted(version) == [type |-> "object", version |-> version]

\* what Ollama answers: the request fails, or a response of a status that
\* axios resolves with, whose data are null or hold a response that is
\* absent, empty, white space, a version with white space around it, the
\* text for no version, or a number
OllamaReplies ==
  {Rejects} \cup
  {Response(status, body) :
     status \in {200, 201},
     body \in {Null} \cup
       {Generated(r) :
          r \in {Undefined, Str(<<>>), Str(<<" ","\t">>),
                 Str(<<" ","2","2",".","1","\t">>), Str(NoVersionFound),
                 Num(22)}}}

\* what the backend answers: the request fails, or data that are null or
\* hold a version that is absent, empty, a text or a number
BackendReplies ==
  {Rejects} \cup
  {Response(200, body) :
     body \in {Null} \cup
       {Extracted(v) :
          v \in {Undefined, Str(<<>>), Str(<<"2","0","2","2">>), Num(2022)}}}

VersionInit ==
  /\ ollamaReply \in OllamaReplies
  /\ backendReply \in BackendReplies
  /\ versionPc = "ollama"
  /\ extracted = Undefined
  /\ query = Undefined
  /\ data = [fuid_mappings |-> Undefined]
  /\ searchType = Undefined
  /\ selectedItem = Undefined
  /\ result = Return(<<>>)
  /\ pc = "unused"
  /\ CallersAtRest
  /\ HelperAtRest
  /\ StreamAtRest
  /\ SubmitAtRest
  /\ LoginAtRest

\* line 118 tests the status first: with status 200, reading
\* ollamaResponse.data.response of data that are null, or calling trim on a
\* response that is truthy and no string, raises a TypeError; with another
\* status data are not read
OllamaResponseThrows(reply) ==
  IF reply = Rejects THEN FALSE
  ELSE IF reply.status # 200 THEN FALSE
  ELSE IF reply.data = Null THEN TRUE
  ELSE Truthy(reply.data.response) /\ ~IsString(reply.data.response)

\* the request to Ollama resolves and lines 118-120 run without an error
OllamaResolves ==
  /\ versionPc = "ollama"
  /\ ollamaReply # Rejects
  /\ ~OllamaResponseThrows(ollamaReply)
  /\ extracted' =
       IF ollamaReply.status # 200 THEN Undefined
       ELSE IF Truthy(ollamaReply.data.response)
         THEN Str(trim(ollamaReply.data.response.chars))
         ELSE Undefined
  /\ versionPc' = "resolved"
  /\ UNCHANGED <<ollamaReply, backendReply>>
  /\ UNCHANGED <<searchVars, streamVars, submitVars, loginVars>>

\* the request to Ollama rejects, or lines 118-120 raise an error: the catch
\* of line 121 asks the backend
OllamaFails ==
  /\ versionPc = "ollama"
  /\ ollamaReply = Rejects \/ OllamaResponseThrows(ollamaReply)
  /\ versionPc' = "backend"
  /\ UNCHANGED <<ollamaReply, backendReply, extracted>>
  /\ UNCHANGED <<searchVars, streamVars, submitVars, loginVars>>

\* the backend answers: line 129; data that are null raise an error, which
\* the catch of line 130 answers
BackendResolves ==
  /\ versionPc = "backend"
  /\ backendReply # Rejects
  /\ extracted' =
       IF backendReply.data # Null /\ Truthy(backendReply.data.version)
         THEN backendReply.data.version
         ELSE Str(NoVersionFound)
  /\ versionPc' = "resolved"
  /\ UNCHANGED <<ollamaReply, backendReply>>
  /\ UNCHANGED <<searchVars, streamVars, submitVars, loginVars>>

\* the request to the backend rejects: lines 130-133
BackendRejects ==
  /\ versionPc = "backend"
  /\ backendReply = Rejects
  /\ extracted' = Str(NoVersionFound)
  /\ versionPc' = "resolved"
  /\ UNCHANGED <<ollamaReply, backendReply>>
  /\ UNCHANGED <<searchVars, streamVars, submitVars, loginVars>>

VersionNext ==
  OllamaResolves \/ OllamaFails \/ BackendResolves \/ BackendRejects

VersionSpec == VersionInit /\ [][VersionNext]_vars

(***************************************************************************)
(* Vocabulary of the properties.                                           *)
(***************************************************************************)
Returned == pc = "returned"

Entries == fuidMappingsOf(data)

Rows == result.value

\* a value of the data model: a string, or absent
IsText(v) == v.type \in {"string", "undefined"}

\* every value of the catalog is an entry, a record, and has text for
\* identifier, company and product
TypedCatalog ==
  \A i \in 1..Len(Entries) :
    /\ Entries[i].type = "object"
    /\ IsText(Entries[i].fuid) /\ IsText(Entries[i].company) /\ IsText(Entries[i].product)

CompanyMode == searchType = CompanyType /\ Truthy(selectedItem)

ProductMode == searchType = ProductType /\ Truthy(selectedItem)

IdentifierStyle == IsString(query) /\ startsWith(toUpperCase(query.chars), FUID)

\* the query reaches the free-text stage
FreeText == IsString(query) /\ ~IdentifierStyle /\ ~CompanyMode /\ ~ProductMode

NormalizedQuery == trim(toLowerCase(normalizeText(query)))

\* the free-text stage, past the floor of two characters
FreeTextSearch == FreeText /\ Len(NormalizedQuery) >= 2

ExactCompany == {i \in 1..Len(Entries) : NormalizedQuery = normalizedCompanyOf(Entries[i])}

ExactProduct == {i \in 1..Len(Entries) : NormalizedQuery = normalizedProductOf(Entries[i])}

ClosestTerm == findClosestMatch(query, data)

\* the string of a field, absent fields being empty
TextOf(v) == IF IsString(v) THEN v.chars ELSE <<>>

\* the row carries the fields of the entry, missing ones as empty strings
RowCarries(row, details) ==
  /\ row.fuid = OrEmpty(details.fuid)
  /\ row.company = OrEmpty(details.company)
  /\ row.company_id = OrEmpty(details.company_id)
  /\ row.product = OrEmpty(details.product)
  /\ row.product_id = OrEmpty(details.product_id)
  /\ row.version = OrEmpty(details.version)
  /\ row.version_id = OrEmpty(details.version_id)
  /\ row.url = OrEmpty(details.url)
  /\ row.categories = OrEmpty(details.categories)
  /\ row.platform = OrEmpty(details.platform)

\* the call returned a list that holds, in some order, one row for each entry
\* of the index set S and nothing else; f tells which entry a row is of, and
\* rowOk[k, i] what else row k must satisfy as the row of entry i
ReturnsEntries(S, rowOk) ==
  /\ ~result.threw
  /\ Len(Rows) = Cardinality(S)
  /\ \E f \in [1..Len(Rows) -> S] :
       /\ \A j, k \in 1..Len(Rows) : j # k => f[j] # f[k]
       /\ \A k \in 1..Len(Rows) :
            RowCarries(Rows[k], Entries[f[k]]) /\ rowOk[k, f[k]]

\* the same, the rows standing in the order of the catalog
ReturnsEntriesInOrder(S, rowOk) ==
  /\ ~result.threw
  /\ Len(Rows) = Cardinality(S)
  /\ \E f \in [1..Len(Rows) -> S] :
       /\ \A j, k \in 1..Len(Rows) : j < k => f[j] < f[k]
       /\ \A k \in 1..Len(Rows) :
            RowCarries(Rows[k], Entries[f[k]]) /\ rowOk[k, f[k]]

SortedByProduct ==
  \A k \in 1..(Len(Rows) - 1) :
    localeCompare(Rows[k].product.chars, Rows[k + 1].product.chars) <= 0

SortedByScore ==
  \A k \in 1..(Len(Rows) - 1) :
    ~RatLess(Rows[k].fuzzy_score, Rows[k + 1].fuzzy_score)

Above(score, bound) == RatLess(Rat(bound, 1), score)

C1_IdentifierMatches ==
  {i \in 1..Len(Entries) :
     toUpperCase(TextOf(Entries[i].fuid)) = toUpperCase(query.chars)}

\* what row k must be as the row of entry i
C1_RowOk ==
  [k \in 1..Len(Rows), i \in 1..Len(Entries) |->
     /\ Rows[k].type = "FUID Match"
     /\ Rows[k].fuzzy_score = Hundred
     /\ "closest_match" \notin DOMAIN Rows[k]]

(***************************************************************************)
(* C1. An identifier-style query (its upper-cased form starts with FUID)   *)
(* returns exactly the entries whose identifier upper-cased is the query   *)
(* upper-cased, in catalog order, each a "FUID Match" of score 100, and    *)
(* the empty list when there is none, whatever the mode and the selected   *)
(* term are and whatever company or product the query text resembles.      *)
(***************************************************************************)
C1_IdentifierStage ==
  (Returned /\ IdentifierStyle /\ TypedCatalog) =>
    ReturnsEntriesInOrder(C1_IdentifierMatches, C1_RowOk)

\* a lower-case identifier query, asked in company mode, found two entries
C1_Witness ==
  /\ Returned /\ IdentifierStyle /\ TypedCatalog
  /\ query.chars # toUpperCase(query.chars)
  /\ CompanyMode
  /\ Len(Rows) = 2
  /\ Rows[1].fuid # Rows[2].fuid

\* an identifier query that is the name of a company of the catalog finds nothing
C1_WitnessCompanyName ==
  /\ Returned /\ IdentifierStyle /\ TypedCatalog
  /\ \E i \in 1..Len(Entries) : NormalizedQuery = normalizedCompanyOf(Entries[i])
  /\ result = Return(<<>>)

C2_TrimmedMatches ==
  {i \in 1..Len(Entries) :
     toUpperCase(TextOf(Entries[i].fuid)) = toUpperCase(trim(query.chars))}

(***************************************************************************)
(* C2. The identifier stage is decided on the trimmed query: a query that  *)
(* starts with FUID once trimmed and upper-cased runs the identifier stage *)
(* only and finds the entries whose identifier upper-cased is the trimmed  *)
(* query upper-cased.                                                      *)
(***************************************************************************)
C2_TrimmedIdentifierStage ==
  (/\ Returned /\ IsString(query) /\ TypedCatalog
   /\ startsWith(toUpperCase(trim(query.chars)), FUID)) =>
    ReturnsEntriesInOrder(C2_TrimmedMatches,
      [k \in 1..Len(Rows), i \in 1..Len(Entries) |->
         Rows[k].type = "FUID Match" /\ Rows[k].fuzzy_score = Hundred])

C3_CompanyMatches ==
  {i \in 1..Len(Entries) :
     /\ Truthy(Entries[i].company)
     /\ toLowerCase(TextOf(Entries[i].company)) = toLowerCase(selectedItem.chars)}

\* what row k must be as the row of entry i
C3_RowOk ==
  [k \in 1..Len(Rows), i \in 1..Len(Entries) |->
     /\ Rows[k].type = "Company Match"
     /\ Rows[k].fuzzy_score = Hundred]

(***************************************************************************)
(* C3. A query that is not identifier-style, asked in company mode with a  *)
(* selected term, returns exactly the entries whose company is the         *)
(* selected term, case ignored, each a "Company Match" of score 100, in    *)
(* ascending order of product (locale compare).  The formula names the     *)
(* query nowhere but in the condition that it is not identifier-style.     *)
(***************************************************************************)
C3_CompanyDrillDown ==
  (/\ Returned /\ IsString(query) /\ ~IdentifierStyle /\ CompanyMode
   /\ IsString(selectedItem) /\ TypedCatalog) =>
    /\ ReturnsEntries(C3_CompanyMatches, C3_RowOk)
    /\ SortedByProduct

\* two entries of the selected company, spelt in different case, came back in
\* the order of their products, which is not the order of the catalog
C3_Witness ==
  /\ Returned /\ IsString(query) /\ ~IdentifierStyle /\ CompanyMode
  /\ IsString(selectedItem) /\ TypedCatalog
  /\ Len(Rows) = 2
  /\ Rows[1].company # Rows[2].company
  /\ RowCarries(Rows[1], Entries[2]) /\ RowCarries(Rows[2], Entries[1])
  /\ localeCompare(Rows[1].product.chars, Rows[2].product.chars) < 0

\* similarity(selectedTerm, product), of the two strings as they are given
C4_Similarity(i) ==
  calculateFuzzyScore(selectedItem.chars, TextOf(Entries[i].product))

C4_ProductMatches ==
  {i \in 1..Len(Entries) :
     Truthy(Entries[i].product) /\ Above(C4_Similarity(i), 0)}

\* what row k must be as the row of entry i
C4_RowOk ==
  [k \in 1..Len(Rows), i \in 1..Len(Entries) |->
     /\ Rows[k].type = "Product Match"
     /\ Rows[k].fuzzy_score = C4_Similarity(i)]

(***************************************************************************)
(* C4. A query that is not identifier-style, asked in product mode with a  *)
(* selected term, returns exactly the entries that have a product whose    *)
(* similarity to the selected term is above 0, each a "Product Match"      *)
(* with that similarity as its score, in non-increasing order of score.    *)
(***************************************************************************)
C4_ProductDrillDown ==
  (/\ Returned /\ IsString(query) /\ ~IdentifierStyle /\ ProductMode
   /\ IsString(selectedItem) /\ TypedCatalog) =>
    /\ ReturnsEntries(C4_ProductMatches, C4_RowOk)
    /\ SortedByScore

C5_SameCompany(m) ==
  {i \in 1..Len(Entries) :
     /\ Truthy(Entries[i].company)
     /\ toLowerCase(TextOf(Entries[i].company))
          = toLowerCase(TextOf(Entries[m].company))}

\* what row k must be as the row of entry i
C5_RowOk ==
  [k \in 1..Len(Rows), i \in 1..Len(Entries) |->
     /\ Rows[k].type = "Company Match"
     /\ Rows[k].fuzzy_score = Hundred]

(***************************************************************************)
(* C5. In the free-text stage a query whose normalized form is the         *)
(* normalized company of some entry is a company drill-down: for one of    *)
(* the entries so matched, the call returns exactly the entries whose raw  *)
(* company is that entry's raw company, case ignored, each a "Company      *)
(* Match" of score 100, in ascending order of product.  This is so also    *)
(* when the normalized query is the normalized product of an entry.        *)
(***************************************************************************)
C5_ExactCompanyDrillDown ==
  (Returned /\ FreeTextSearch /\ TypedCatalog /\ ExactCompany # {}) =>
    /\ \E m \in ExactCompany : ReturnsEntries(C5_SameCompany(m), C5_RowOk)
    /\ SortedByProduct

\* the query is the company of entries and the product of an entry; the
\* entries of the company came back, ordered by product against catalog order
C5_Witness ==
  /\ Returned /\ FreeTextSearch /\ TypedCatalog
  /\ ExactCompany # {} /\ ExactProduct # {}
  /\ Len(Rows) = 2
  /\ \A k \in 1..2 : Rows[k].type = "Company Match"
  /\ RowCarries(Rows[1], Entries[2]) /\ RowCarries(Rows[2], Entries[1])
  /\ localeCompare(Rows[1].product.chars, Rows[2].product.chars) < 0

C6_Similarity(i) ==
  calculateFuzzyScore(NormalizedQuery, toLowerCase(TextOf(Entries[i].product)))

C6_NearProducts ==
  {i \in 1..Len(Entries) :
     Truthy(Entries[i].product) /\ Above(C6_Similarity(i), 80)}

\* what row k must be as the row of entry i
C6_RowOk ==
  [k \in 1..Len(Rows), i \in 1..Len(Entries) |->
     /\ Rows[k].type = "Product Match"
     /\ Rows[k].fuzzy_score = C6_Similarity(i)]

(***************************************************************************)
(* C6. In the free-text stage a query whose normalized form is the         *)
(* normalized product of some entry and the normalized company of none     *)
(* returns exactly the entries that have a product whose lower-cased raw   *)
(* form has similarity above 80 with the normalized query, each a "Product *)
(* Match" with that score, in non-increasing order of score.               *)
(***************************************************************************)
C6_ExactProductMatch ==
  (/\ Returned /\ FreeTextSearch /\ TypedCatalog
   /\ ExactProduct # {} /\ ExactCompany = {}) =>
    /\ ReturnsEntries(C6_NearProducts, C6_RowOk)
    /\ SortedByScore
    /\ \A k \in 1..Len(Rows) : Above(Rows[k].fuzzy_score, 80)

\* the exact product came back first, a product of score above 80 and below
\* 100 behind it though it stands first in the catalog
C6_Witness ==
  /\ Returned /\ FreeTextSearch /\ TypedCatalog
  /\ ExactProduct # {} /\ ExactCompany = {}
  /\ Len(Rows) = 2
  /\ Rows[1].fuzzy_score = Hundred
  /\ RatLess(Rows[2].fuzzy_score, Hundred)
  /\ RowCarries(Rows[1], Entries[2]) /\ RowCarries(Rows[2], Entries[1])

\* an entry whose product has similarity exactly 80 is left out
C6_WitnessBoundary ==
  /\ Returned /\ FreeTextSearch /\ TypedCatalog
  /\ ExactProduct # {} /\ ExactCompany = {}
  /\ \E i \in 1..Len(Entries) :
       Truthy(Entries[i].product) /\ C6_Similarity(i) = Rat(80, 1)
  /\ Len(Rows) = 1

(***************************************************************************)
(* C7. On the free-text path (the query is not identifier-style and no     *)
(* mode comes with a selected term) a query whose normalized form has      *)
(* fewer than 2 characters returns the empty list, for every catalog:      *)
(* empty, white space only and punctuation only queries among them.        *)
(***************************************************************************)
C7_ShortQueryRejected ==
  (Returned /\ FreeText /\ Len(NormalizedQuery) < 2) => result = Return(<<>>)

\* a query of one letter, which a company and a product of the catalog
\* resemble, returned nothing
C7_Witness ==
  /\ Returned /\ FreeText
  /\ Len(NormalizedQuery) = 1
  /\ Len(Entries) >= 1
  /\ \E i \in 1..Len(Entries) :
       /\ IsString(Entries[i].company)
       /\ Above(calculateFuzzyScore(NormalizedQuery, Entries[i].company.chars), 0)
  /\ result = Return(<<>>)

\* a query of punctuation and white space returned nothing
C7_WitnessPunctuation ==
  /\ Returned /\ FreeText
  /\ query.chars # <<>> /\ NormalizedQuery = <<>>
  /\ Len(Entries) >= 1
  /\ result = Return(<<>>)

C8_ClosestCompany ==
  {i \in 1..Len(Entries) : normalizedCompanyOf(Entries[i]) = ClosestTerm}

\* what row k must be as the row of entry i
C8_RowOk ==
  [k \in 1..Len(Rows), i \in 1..Len(Entries) |->
     /\ Rows[k].type = "Closest Match"
     /\ Rows[k].fuzzy_score = Hundred
     /\ Rows[k].closest_match = Str(ClosestTerm)
     /\ Rows[k].original_query = query]

(***************************************************************************)
(* C8. In the free-text stage with no exact match, when the closest term   *)
(* is the normalized company of some entry, the call returns exactly the   *)
(* entries whose normalized company is the closest term, each a "Closest   *)
(* Match" of score 100 that carries the closest term and the query as the  *)
(* caller gave it, in ascending order of product.                          *)
(***************************************************************************)
C8_ClosestCompanyMatch ==
  (/\ Returned /\ FreeTextSearch /\ TypedCatalog
   /\ ExactCompany = {} /\ ExactProduct = {}
   /\ ClosestTerm # <<>> /\ C8_ClosestCompany # {}) =>
    /\ ReturnsEntries(C8_ClosestCompany, C8_RowOk)
    /\ SortedByProduct

\* a misspelt company: its entries came back ordered by product against the
\* catalog order, with a query that its normalized form differs from
C8_Witness ==
  /\ Returned /\ FreeTextSearch /\ TypedCatalog
  /\ ExactCompany = {} /\ ExactProduct = {}
  /\ ClosestTerm # <<>> /\ C8_ClosestCompany # {}
  /\ query.chars # NormalizedQuery
  /\ Len(Rows) = 2
  /\ Rows[1].original_query = query
  /\ RowCarries(Rows[1], Entries[2]) /\ RowCarries(Rows[2], Entries[1])
  /\ localeCompare(Rows[1].product.chars, Rows[2].product.chars) < 0

C9_Similarity(i) ==
  calculateFuzzyScore(ClosestTerm, toLowerCase(TextOf(Entries[i].product)))

C9_NearProducts ==
  {i \in 1..Len(Entries) :
     Truthy(Entries[i].product) /\ Above(C9_Similarity(i), 80)}

\* what row k must be as the row of entry i
C9_RowOk ==
  [k \in 1..Len(Rows), i \in 1..Len(Entries) |->
     /\ Rows[k].type = "Closest Match"
     /\ Rows[k].fuzzy_score = C9_Similarity(i)
     /\ Rows[k].closest_match = Str(ClosestTerm)
     /\ Rows[k].original_query = query]

(***************************************************************************)
(* C9. In the free-text stage with no exact match, when the closest term   *)
(* is the normalized product of some entry and the normalized company of   *)
(* none, the call returns exactly the entries that have a product whose    *)
(* lower-cased form has similarity above 80 with the closest term, each a  *)
(* "Closest Match" with that score, the closest term and the query, in     *)
(* non-increasing order of score.                                          *)
(***************************************************************************)
C9_ClosestProductMatch ==
  (/\ Returned /\ FreeTextSearch /\ TypedCatalog
   /\ ExactCompany = {} /\ ExactProduct = {}
   /\ ClosestTerm # <<>> /\ C8_ClosestCompany = {}
   /\ \E i \in 1..Len(Entries) : normalizedProductOf(Entries[i]) = ClosestTerm) =>
    /\ ReturnsEntries(C9_NearProducts, C9_RowOk)
    /\ SortedByScore

\* a misspelt product: the closest product came back first with score 100, a
\* product of score above 80 behind it though it stands first in the catalog
C9_Witness ==
  /\ Returned /\ FreeTextSearch /\ TypedCatalog
  /\ ExactCompany = {} /\ ExactProduct = {}
  /\ ClosestTerm # <<>> /\ C8_ClosestCompany = {}
  /\ Len(Rows) = 2
  /\ Rows[1].type = "Closest Match"
  /\ Rows[1].fuzzy_score = Hundred
  /\ RatLess(Rows[2].fuzzy_score, Hundred)
  /\ RowCarries(Rows[1], Entries[2]) /\ RowCarries(Rows[2], Entries[1])

(***************************************************************************)
(* C10. search never raises: for every shape of input (an entry without    *)
(* company, product or identifier, a field that is no string, an empty or  *)
(* absent catalog mapping, an empty query or a query that is no string),   *)
(* in every mode, the call returns a list.                                 *)
(***************************************************************************)
C10_NeverRaises == Returned => ~result.threw

\* the identities of the objects caller c was given: its list and its rows
C11_Given(c) ==
  IF callers[c].list = 0 THEN {}
  ELSE {callers[c].list} \cup Range(heap[callers[c].list].items)

C11_CatalogObjects == 1..Len(fuidMappingsOf(data))

(***************************************************************************)
(* C11. A call of search, on any path, leaves the catalog and each of its  *)
(* entries as the callers supplied them, and returns a new list of new     *)
(* rows: the list and the rows are no object of the catalog and no object  *)
(* another call returned, and no later call changes them.  Two calls with  *)
(* the same arguments on the same catalog, in either order, end the same   *)
(* way with equal lists.                                                   *)
(***************************************************************************)
C11_CallsLeaveSnapshot ==
  /\ catalogIn(heap, data) = data
  /\ \A c \in Callers :
       (callers[c].pc = "returned" /\ ~callers[c].threw) =>
         /\ heap[callers[c].list].kind = "array"
         /\ C11_Given(c) \cap C11_CatalogObjects = {}
         /\ Cardinality(C11_Given(c)) = 1 + Len(callers[c].value)
         /\ rowsOf(heap, callers[c].list) = callers[c].value
  /\ \A c, d \in Callers :
       (c # d /\ callers[c].pc = "returned" /\ callers[d].pc = "returned") =>
         /\ C11_Given(c) \cap C11_Given(d) = {}
         /\ callers[c].threw = callers[d].threw
         /\ callers[c].value = callers[d].value

\* both callers were returned two rows, sorted against the order of the catalog
C11_Witness ==
  /\ \A c \in Callers :
       /\ callers[c].pc = "returned" /\ ~callers[c].threw
       /\ Len(callers[c].value) = 2
       /\ RowCarries(callers[c].value[1], fuidMappingsOf(data)[2])
       /\ RowCarries(callers[c].value[2], fuidMappingsOf(data)[1])
  /\ callers["a"].list < callers["b"].list

MatchTypes == {"FUID Match", "Company Match", "Product Match", "Closest Match"}

(***************************************************************************)
(* C12. In every list search returns, every row has one of the four match  *)
(* types and a score from 0 to 100; a row has the fields closest_match and *)
(* original_query exactly when it is a "Closest Match"; and all the rows   *)
(* of the list have the same match type.                                   *)
(***************************************************************************)
C12_RowsWellFormed ==
  (Returned /\ ~result.threw) =>
    \A k \in 1..Len(Rows) :
      /\ Rows[k].type \in MatchTypes
      /\ ~RatLess(Rows[k].fuzzy_score, Zero)
      /\ ~RatLess(Hundred, Rows[k].fuzzy_score)
      /\ "closest_match" \in DOMAIN Rows[k] <=> Rows[k].type = "Closest Match"
      /\ "original_query" \in DOMAIN Rows[k] <=> Rows[k].type = "Closest Match"
      /\ \A j \in 1..Len(Rows) : Rows[j].type = Rows[k].type

\* a list of two product matches, one of a score between 0 and 100, that
\* have neither field of a closest match
C12_Witness ==
  /\ Returned /\ ~result.threw
  /\ Len(Rows) = 2
  /\ \A k \in 1..2 : Rows[k].type = "Product Match"
  /\ Above(Rows[2].fuzzy_score, 0) /\ RatLess(Rows[2].fuzzy_score, Hundred)
  /\ "closest_match" \notin DOMAIN Rows[1]

\* a list of two closest matches of different score that have both fields
C12_WitnessClosest ==
  /\ Returned /\ ~result.threw
  /\ Len(Rows) = 2
  /\ \A k \in 1..2 :
       /\ Rows[k].type = "Closest Match"
       /\ Rows[k].closest_match = Str(ClosestTerm)
       /\ Rows[k].original_query = query
  /\ RatLess(Rows[2].fuzzy_score, Rows[1].fuzzy_score)

\* the call of the helper f has returned
HasReturned(f) == callee = f /\ returns # <<>>

\* what the first call of the helper returned
Returns == returns[1].value

(***************************************************************************)
(* C13. similarity(a, b) is 100 when both strings are empty; otherwise it  *)
(* is 100 - 100 * editDistance(a, b) / max(len(a), len(b)), and 0 where    *)
(* that is below 0.  So it lies from 0 to 100, similarity(x, x) is 100,    *)
(* and similarity(a, b) is similarity(b, a).                               *)
(***************************************************************************)
C13_SimilarityFormula ==
  HasReturned("calculateFuzzyScore") =>
    LET a == args[1]
        b == args[2]
        distance == calculateStringDistance(a, b)
        longest == Max(Len(a), Len(b))
    IN /\ (longest = 0) => Returns = Hundred
       /\ (longest > 0 /\ distance <= longest) =>
            Returns.num * longest = 100 * (longest - distance) * Returns.den
       /\ (longest > 0 /\ distance > longest) => Returns = Zero
       /\ ~RatLess(Returns, Zero) /\ ~RatLess(Hundred, Returns)
       /\ (a = b) => Returns = Hundred
       /\ Returns = calculateFuzzyScore(b, a)

\* a distance above the length of the longer string: the score is brought up
\* to 0
C13_Witness ==
  /\ HasReturned("calculateFuzzyScore")
  /\ calculateStringDistance(args[1], args[2]) > Max(Len(args[1]), Len(args[2]))
  /\ Returns = Zero

\* two different strings of different length, with a score between 0 and 100
C13_WitnessBetween ==
  /\ HasReturned("calculateFuzzyScore")
  /\ Len(args[1]) < Len(args[2])
  /\ Above(Returns, 0) /\ RatLess(Returns, Hundred)

(***************************************************************************)
(* C14. similarity is case-insensitive: similarity(a, b) is                *)
(* similarity(lower(a), lower(b)) for all strings a and b.                 *)
(***************************************************************************)
C14_CaseInsensitive ==
  HasReturned("calculateFuzzyScore") =>
    Returns = calculateFuzzyScore(toLowerCase(args[1]), toLowerCase(args[2]))

\* the Levenshtein distance, by its recurrence on the first characters
RECURSIVE Levenshtein(_, _)
Levenshtein(a, b) ==
  IF a = <<>> THEN Len(b)
  ELSE IF b = <<>> THEN Len(a)
  ELSE IF Head(a) = Head(b) THEN Levenshtein(Tail(a), Tail(b))
  ELSE 1 + Min3(Levenshtein(Tail(a), b),
                Levenshtein(a, Tail(b)),
                Levenshtein(Tail(a), Tail(b)))

(***************************************************************************)
(* C15, as stated.  editDistance(a, b) is the Levenshtein distance of the  *)
(* lower-cased strings with unit costs; editDistance(a, a) = 0,            *)
(* editDistance(a, b) = editDistance(b, a), editDistance(a, "") = len(a).  *)
(***************************************************************************)
C15_DistanceAsStated ==
  HasReturned("calculateStringDistance") =>
    LET a == args[1]
        b == args[2]
    IN /\ Returns = Levenshtein(toLowerCase(a), toLowerCase(b))
       /\ (a = b) => Returns = 0
       /\ Returns = calculateStringDistance(b, a)
       /\ (b = <<>>) => Returns = Len(a)

(***************************************************************************)
(* C15, amended.  editDistance(a, b) is the Levenshtein distance of the    *)
(* lower-cased strings with unit costs; editDistance(a, a) = 0,            *)
(* editDistance(a, b) = editDistance(b, a), and editDistance(a, "") is the *)
(* length of a lower-cased, which is len(a) unless lower-casing makes a    *)
(* longer.                                                                 *)
(***************************************************************************)
C15_DistanceOfLowerCased ==
  HasReturned("calculateStringDistance") =>
    LET a == args[1]
        b == args[2]
    IN /\ Returns = Levenshtein(toLowerCase(a), toLowerCase(b))
       /\ (a = b) => Returns = 0
       /\ Returns = calculateStringDistance(b, a)
       /\ (b = <<>>) => Returns = Len(toLowerCase(a))
       /\ (b = <<>> /\ Len(toLowerCase(a)) = Len(a)) => Returns = Len(a)

\* two strings that differ in case only and in no other way but one
\* character more: the distance is 1
C15_Witness ==
  /\ HasReturned("calculateStringDistance")
  /\ Len(args[1]) = 3 /\ Len(args[2]) = 2
  /\ args[1] # toLowerCase(args[1])
  /\ SubSeq(args[1], 1, 2) # args[2]
  /\ Returns = 1

\* the distance to the empty string of a string that lower-casing makes longer
C15_WitnessLonger ==
  /\ HasReturned("calculateStringDistance")
  /\ args[2] = <<>>
  /\ Returns > Len(args[1])

\* the words of s: its longest runs of characters that are no white space;
\* word holds the characters of the word being read
RECURSIVE WordsOf(_, _)
WordsOf(s, word) ==
  IF s = <<>> THEN (IF word = <<>> THEN <<>> ELSE <<word>>)
  ELSE IF Head(s) \in WhiteSpace
    THEN (IF word = <<>> THEN <<>> ELSE <<word>>) \o WordsOf(Tail(s), <<>>)
    ELSE WordsOf(Tail(s), Append(word, Head(s)))

\* the words joined by one space
RECURSIVE JoinWords(_)
JoinWords(words) ==
  IF words = <<>> THEN <<>>
  ELSE IF Len(words) = 1 THEN words[1]
  ELSE words[1] \o <<" ">> \o JoinWords(Tail(words))

\* the text lower-cased and decomposed, without the characters that are no
\* word character, white space or dot, as words joined by one space
NormalizedForm(s) ==
  JoinWords(WordsOf(
    SelectSeq(normalizeNFD(toLowerCase(s)),
              LAMBDA c : c \in WordChars \cup WhiteSpace \cup {"."}),
    <<>>))

\* no white space at either end, none but the space, and no two in a row
CleanWhiteSpace(s) ==
  /\ \A i \in 1..Len(s) : s[i] \in WhiteSpace => s[i] = " "
  /\ s # <<>> => s[1] # " " /\ s[Len(s)] # " "
  /\ \A i \in 1..(Len(s) - 1) : ~(s[i] = " " /\ s[i + 1] = " ")

(***************************************************************************)
(* C16, as stated.  normalize(text) is "" for every input that is absent   *)
(* or no string; for a string it is the lower-cased, decomposed text       *)
(* without the characters that are no word character, white space or dot,  *)
(* runs of white space collapsed to one space and both ends trimmed, so it *)
(* has no leading, trailing or doubled white space.                        *)
(***************************************************************************)
C16_NormalizeAsStated ==
  HasReturned("normalizeText") =>
    /\ ~IsString(args[1]) => Returns = <<>>
    /\ IsString(args[1]) => Returns = NormalizedForm(args[1].chars)
    /\ CleanWhiteSpace(Returns)

(***************************************************************************)
(* C16, amended.  normalize(text) is "" for every input that is absent or  *)
(* falsy ("" and 0 among them); any other input that is no string is       *)
(* converted with String() and then treated as a string is: the result is  *)
(* the lower-cased, decomposed text without the characters that are no     *)
(* word character, white space or dot, runs of white space collapsed to    *)
(* one space and both ends trimmed, so it has no leading, trailing or      *)
(* doubled white space.                                                    *)
(***************************************************************************)
C16_NormalizeCoerces ==
  HasReturned("normalizeText") =>
    /\ ~Truthy(args[1]) => Returns = <<>>
    /\ Truthy(args[1]) => Returns = NormalizedForm(ToStringValue(args[1]))
    /\ CleanWhiteSpace(Returns)

\* a text that starts with white space and has a hyphen and a capital: the
\* result is the letter in lower case alone
C16_Witness ==
  /\ HasReturned("normalizeText")
  /\ IsString(args[1])
  /\ Len(args[1].chars) >= 3
  /\ args[1].chars[1] \in WhiteSpace
  /\ \E i \in 1..Len(args[1].chars) : args[1].chars[i] = "-"
  /\ \E i \in 1..Len(args[1].chars) : args[1].chars[i] = "A"
  /\ Returns = <<"a">>

\* two words with a tab between them come back with a space between them
C16_WitnessWords ==
  /\ HasReturned("normalizeText")
  /\ IsString(args[1])
  /\ Len(args[1].chars) >= 3
  /\ args[1].chars[2] = "\t"
  /\ Len(Returns) = 3 /\ Returns[2] = " "

\* a number that is not 0 comes back as its digits
C16_WitnessNumber ==
  /\ HasReturned("normalizeText")
  /\ args[1] = Num(42)
  /\ Returns = <<"4", "2">>

(***************************************************************************)
(* C17. normalize is idempotent: normalize(normalize(s)) = normalize(s)    *)
(* for every input s.                                                      *)
(***************************************************************************)
C17_Idempotent ==
  (callee = "normalizeText" /\ Len(returns) = 2) => returns[2] = returns[1]

\* a text the first call changed and did not empty, and the second call kept
C17_Witness ==
  /\ callee = "normalizeText" /\ Len(returns) = 2
  /\ IsString(args[1])
  /\ returns[1].value # args[1].chars
  /\ returns[1].value # <<>>
  /\ \E i \in 1..Len(returns[1].value) : returns[1].value[i] = " "
  /\ returns[2] = returns[1]

\* the digits of n, with zeros in front of them where they are fewer than width
ZeroPadded(n, width) ==
  LET digits == NumberToString(n)
      zeros == IF Len(digits) < width THEN width - Len(digits) ELSE 0
  IN [i \in 1..zeros |-> "0"] \o digits

\* the letters and digits of a name, in their order
AlnumOf(name) == SelectSeq(name, LAMBDA c : c \in AlnumChars)

\* the part of a code before its first colon
BeforeColon(code) ==
  SubSeq(code, 1, (CHOOSE i \in 1..Len(code) :
                     code[i] = ":" /\ \A j \in 1..(i - 1) : code[j] # ":") - 1)

(***************************************************************************)
(* C18.  generateCompanyCode(name, counter): for a name that is empty or   *)
(* absent or has no letter and no digit the result is UNKNOWN and the      *)
(* counter zero-padded to 5 digits.  Otherwise the characters of the name  *)
(* that are no letter and no digit become spaces, the name is split on     *)
(* white space and its words are concatenated, which leaves the letters    *)
(* and digits of the name in their order; the result is the first 5 of     *)
(* them in upper case, a colon and the counter zero-padded to 5 digits, so *)
(* what stands before the colon is 1 to 5 upper-case letters and digits.   *)
(***************************************************************************)
C18_CompanyCode ==
  (HasReturned("generateCompanyId") /\ IsText(args[1])) =>
    LET alnum == AlnumOf(TextOf(args[1]))
        counter == ZeroPadded(args[2].num, 5)
    IN IF alnum = <<>>
         THEN Returns = UNKNOWN \o counter
         ELSE /\ Returns =
                   toUpperCase(SubSeq(alnum, 1,
                                      IF Len(alnum) < 5 THEN Len(alnum) ELSE 5))
                     \o <<":">> \o counter
              /\ Len(BeforeColon(Returns)) \in 1..5
              /\ \A i \in 1..Len(BeforeColon(Returns)) :
                   BeforeColon(Returns)[i]
                     \in Range(UpperLetters) \cup Range(DigitChars)

(***************************************************************************)
(* C19.  buildIdentifier(companyCode, productCode, version) is "FUID-",    *)
(* the company code, "-", the product code, "-" and v, where v is "NA"     *)
(* when the version is empty or absent or is "NO VERSION FOUND" in any     *)
(* case of its letters, and otherwise the version without its white space. *)
(***************************************************************************)
C19_BuildIdentifier ==
  (HasReturned("generateFuid") /\ IsText(args[3])) =>
    LET version == TextOf(args[3])
        head == <<"F","U","I","D","-">> \o args[1].chars \o <<"-">>
                  \o args[2].chars \o <<"-">>
        v == SubSeq(Returns, Len(head) + 1, Len(Returns))
    IN /\ Len(Returns) >= Len(head)
       /\ SubSeq(Returns, 1, Len(head)) = head
       /\ IF version = <<>> \/ toLowerCase(version) = toLowerCase(NoVersionFound)
            THEN v = <<"N","A">>
            ELSE v = SelectSeq(version, LAMBDA c : c \notin WhiteSpace)

\* "NO VERSION FOUND" in another case of its letters gives NA
C19_Witness ==
  /\ HasReturned("generateFuid")
  /\ IsString(args[3])
  /\ args[3].chars # NoVersionFound
  /\ toUpperCase(args[3].chars) = NoVersionFound
  /\ Returns = <<"F","U","I","D","-">> \o args[1].chars
                 \o <<"-","0","0","0","1","-","N","A">>

\* a version with white space inside and at its end comes without it
C19_WitnessWhiteSpace ==
  /\ HasReturned("generateFuid")
  /\ args[3] = Str(<<"2"," ",".","2">>)
  /\ SubSeq(Returns, Len(Returns) - 2, Len(Returns)) = <<"2",".","2">>
  /\ \A i \in 1..Len(Returns) : Returns[i] \notin WhiteSpace

\* the places where a version is cut: before it, behind it, and at its dots
CutsOf(version) ==
  {0, Len(version) + 1} \cup {i \in 1..Len(version) : version[i] = "."}

\* the cut that follows the cut c
NextCut(version, c) ==
  CHOOSE d \in CutsOf(version) :
    d > c /\ \A e \in CutsOf(version) : e > c => d <= e

\* a segment without the white space at its ends
Stripped(segment) ==
  LET inked == {i \in 1..Len(segment) : segment[i] \notin WhiteSpace}
  IN IF inked = {} THEN <<>>
     ELSE SubSeq(segment,
                 CHOOSE i \in inked : \A j \in inked : i <= j,
                 CHOOSE i \in inked : \A j \in inked : i >= j)

\* a segment of exactly one digit gets a zero in front, any other is kept
ZeroLed(segment) ==
  IF Len(segment) = 1 /\ segment[1] \in Range(DigitChars)
    THEN <<"0">> \o segment
    ELSE segment

\* the segments that follow the cut c, each as it is but zero-led, with
\* hyphens between them
RECURSIVE SegmentsAsTheyAre(_, _)
SegmentsAsTheyAre(version, c) ==
  LET d == NextCut(version, c)
      segment == ZeroLed(SubSeq(version, c + 1, d - 1))
  IN IF d = Len(version) + 1 THEN segment
     ELSE segment \o <<"-">> \o SegmentsAsTheyAre(version, d)

\* the same, each segment stripped first
RECURSIVE SegmentsStripped(_, _)
SegmentsStripped(version, c) ==
  LET d == NextCut(version, c)
      segment == ZeroLed(Stripped(SubSeq(version, c + 1, d - 1)))
  IN IF d = Len(version) + 1 THEN segment
     ELSE segment \o <<"-">> \o SegmentsStripped(version, d)

(***************************************************************************)
(* C20, as stated.  formatVersionForIdentifier(version) is "00" for an     *)
(* empty version and for "NO VERSION FOUND"; otherwise the version is      *)
(* split at its dots, every segment that is exactly one digit gets a zero  *)
(* in front, every other segment stays as it is, and the segments are      *)
(* joined with hyphens.                                                    *)
(***************************************************************************)
C20_FormatAsStated ==
  (HasReturned("formatVersionForFuid") /\ IsText(args[1])) =>
    /\ ~returns[1].threw
    /\ IF TextOf(args[1]) = <<>> \/ TextOf(args[1]) = NoVersionFound
         THEN Returns = <<"0","0">>
         ELSE Returns = SegmentsAsTheyAre(args[1].chars, 0)

(***************************************************************************)
(* C20, amended.  For a version that is absent or a string,                *)
(* formatVersionForIdentifier(version) is "00" for an empty or absent      *)
(* version and for "NO VERSION FOUND"; otherwise the version is split at   *)
(* its dots, every segment loses the white space at its ends, every        *)
(* segment that then is exactly one digit gets a zero in front, every      *)
(* other segment stays as it then is, and the segments are joined with     *)
(* hyphens.                                                                *)
(***************************************************************************)
C20_FormatTrimsSegments ==
  (HasReturned("formatVersionForFuid") /\ IsText(args[1])) =>
    /\ ~returns[1].threw
    /\ IF TextOf(args[1]) = <<>> \/ TextOf(args[1]) = NoVersionFound
         THEN Returns = <<"0","0">>
         ELSE Returns = SegmentsStripped(args[1].chars, 0)

\* a version whose second segment is one digit behind a space: the digit
\* gets its zero and the space is gone
C20_Witness ==
  /\ HasReturned("formatVersionForFuid")
  /\ args[1] = Str(<<"2","."," ","2">>)
  /\ Returns = <<"0","2","-","0","2">>

\* the example of the documentation: 22.7 becomes 22-07
C20_WitnessExample ==
  /\ HasReturned("formatVersionForFuid")
  /\ args[1] = Str(<<"2","2",".","7">>)
  /\ Returns = <<"2","2","-","0","7">>

\* the free-text stage found no entry whose normalized company or product is
\* the normalized query
NoExactMatch == ExactCompany = {} /\ ExactProduct = {}

\* the catalog holds a company or product name that is not empty
HasName ==
  \E i \in 1..Len(Entries) :
    Truthy(Entries[i].company) \/ Truthy(Entries[i].product)

(***************************************************************************)
(* C21. In the free-text stage with no exact match, whenever the catalog   *)
(* holds at least one non-empty company or product name, a closest match   *)
(* is found: a term of similarity 0 qualifies too, and only a catalog      *)
(* without names yields no closest match.                                  *)
(***************************************************************************)
C21_ClosestMatchFound ==
  (Returned /\ FreeTextSearch /\ TypedCatalog /\ NoExactMatch /\ HasName) =>
    ClosestTerm # <<>>

\* the closest term is the normalized company or the normalized product of
\* an entry of the catalog
ClosestTermIsOfAnEntry ==
  \E i \in 1..Len(Entries) :
    \/ ClosestTerm = normalizedCompanyOf(Entries[i])
    \/ ClosestTerm = normalizedProductOf(Entries[i])

(***************************************************************************)
(* C22. In the free-text stage with no exact match, a closest term that    *)
(* was found is the normalized company or the normalized product of at     *)
(* least one entry, and the call returns a list that is not empty: the     *)
(* rejection of a closest term that is neither is never reached.           *)
(***************************************************************************)
C22_ClosestTermResolves ==
  (/\ Returned /\ FreeTextSearch /\ TypedCatalog /\ NoExactMatch
   /\ ClosestTerm # <<>>) =>
    /\ ClosestTermIsOfAnEntry
    /\ ~result.threw /\ Rows # <<>>

\* the names of the catalog in the order the scan meets them: slot 2i - 1 is
\* the company of entry i and slot 2i its product
NameSlots == 1..(2 * Len(Entries))

NameAt(k) ==
  IF k % 2 = 1 THEN Entries[(k + 1) \div 2].company ELSE Entries[k \div 2].product

\* the similarity of the normalized query to the lower-cased name of slot k
SimilarityAt(k) ==
  calculateFuzzyScore(toLowerCase(normalizeText(query)),
                      toLowerCase(TextOf(NameAt(k))))

\* slot k holds the first name of the highest similarity
FirstHighest(k) ==
  /\ Truthy(NameAt(k))
  /\ \A j \in NameSlots :
       Truthy(NameAt(j)) =>
         /\ ~RatLess(SimilarityAt(k), SimilarityAt(j))
         /\ j < k => RatLess(SimilarityAt(j), SimilarityAt(k))

(***************************************************************************)
(* C23. In the free-text stage with no exact match, the closest match is   *)
(* the lower-cased company or product name of the highest similarity to    *)
(* the normalized query and, among names that tie for the highest          *)
(* similarity, the one the scan of the catalog meets first, each entry's   *)
(* company before its product.                                             *)
(***************************************************************************)
C23_FirstHighestTerm ==
  (Returned /\ FreeTextSearch /\ TypedCatalog /\ NoExactMatch /\ HasName) =>
    \E k \in NameSlots :
      FirstHighest(k) /\ ClosestTerm = toLowerCase(TextOf(NameAt(k)))

\* the same of the searches that found a closest match
C23_FirstHighestTermFound ==
  (/\ Returned /\ FreeTextSearch /\ TypedCatalog /\ NoExactMatch
   /\ ClosestTerm # <<>>) =>
    \E k \in NameSlots :
      FirstHighest(k) /\ ClosestTerm = toLowerCase(TextOf(NameAt(k)))

\* two different names tie for the highest similarity, and the closest match
\* is the one of the earlier slot
C23_WitnessTie ==
  /\ Returned /\ FreeTextSearch /\ TypedCatalog /\ NoExactMatch
  /\ \E k, j \in NameSlots :
       /\ k < j /\ FirstHighest(k) /\ Truthy(NameAt(j))
       /\ SimilarityAt(j) = SimilarityAt(k)
       /\ toLowerCase(TextOf(NameAt(j))) # toLowerCase(TextOf(NameAt(k)))
       /\ ClosestTerm = toLowerCase(TextOf(NameAt(k)))
       /\ Rows # <<>>

\* entry i is in the returned list
Returned_Entry(i) ==
  \E k \in 1..Len(Rows) : RowCarries(Rows[k], Entries[i])

(***************************************************************************)
(* C24 as stated.  In the free-text stage, when the normalized query is    *)
(* the normalized product of some entry and the normalized company of      *)
(* none, the returned list is not empty and contains every such entry,     *)
(* whatever punctuation or spacing its raw product carries.                *)
(***************************************************************************)
C24_ExactProductReturned ==
  (/\ Returned /\ FreeTextSearch /\ TypedCatalog
   /\ ExactProduct # {} /\ ExactCompany = {}) =>
    /\ ~result.threw /\ Rows # <<>>
    /\ \A i \in ExactProduct : Returned_Entry(i)

(***************************************************************************)
(* C24. In the free-text stage, when the normalized query is the           *)
(* normalized product of some entry and the normalized company of none,    *)
(* such an entry is in the returned list exactly when the similarity of    *)
(* the normalized query to its lower-cased raw product is above 80.  It is *)
(* in the list, with score 100, when its lower-cased raw product is the    *)
(* normalized query; a raw product that punctuation takes to a similarity  *)
(* of 80 or below is left out, and the list can be empty.                  *)
(***************************************************************************)
C24_ExactProductKeptByRawScore ==
  (/\ Returned /\ FreeTextSearch /\ TypedCatalog
   /\ ExactProduct # {} /\ ExactCompany = {}) =>
    /\ ~result.threw
    /\ \A i \in ExactProduct :
         /\ Returned_Entry(i) <=> Above(C6_Similarity(i), 80)
         /\ toLowerCase(TextOf(Entries[i].product)) = NormalizedQuery =>
              \E k \in 1..Len(Rows) :
                RowCarries(Rows[k], Entries[i]) /\ Rows[k].fuzzy_score = Hundred

\* the query is the normalized product of the only entry, whose raw product
\* carries punctuation, and nothing came back
C24_Witness ==
  /\ Returned /\ FreeTextSearch /\ TypedCatalog
  /\ ExactProduct = {1} /\ ExactCompany = {}
  /\ toLowerCase(TextOf(Entries[1].product)) # NormalizedQuery
  /\ ~Above(C6_Similarity(1), 80)
  /\ result = Return(<<>>)

\* the query, which carries punctuation, is the product of the second entry
\* up to case, and that entry came back first with score 100
C24_WitnessKept ==
  /\ Returned /\ FreeTextSearch /\ TypedCatalog
  /\ ExactProduct = {2} /\ ExactCompany = {}
  /\ query.chars # NormalizedQuery
  /\ toLowerCase(TextOf(Entries[2].product)) = NormalizedQuery
  /\ Len(Rows) >= 1
  /\ RowCarries(Rows[1], Entries[2]) /\ Rows[1].fuzzy_score = Hundred

\* the last entry of the catalog whose normalized company is the normalized
\* query
LastExactCompany == CHOOSE m \in ExactCompany : \A j \in ExactCompany : j <= m

(***************************************************************************)
(* C25 as stated.  In the free-text stage, when the normalized query is    *)
(* the normalized company of one or more entries, every entry whose        *)
(* normalized company is the normalized query is in the returned list,     *)
(* also when the entries spell the company with different punctuation or   *)
(* spacing.                                                                *)
(***************************************************************************)
C25_ExactCompanyAllReturned ==
  (Returned /\ FreeTextSearch /\ TypedCatalog /\ ExactCompany # {}) =>
    /\ ~result.threw
    /\ \A i \in ExactCompany : Returned_Entry(i)

(***************************************************************************)
(* C25. In the free-text stage, when the normalized query is the           *)
(* normalized company of one or more entries, such an entry is in the      *)
(* returned list exactly when its raw company, lower-cased, is the         *)
(* lower-cased raw company of the last such entry of the catalog: that     *)
(* last entry is always returned, and an entry that spells the company     *)
(* with different punctuation or accents is left out.                      *)
(***************************************************************************)
C25_ExactCompanyKeptByRawName ==
  (Returned /\ FreeTextSearch /\ TypedCatalog /\ ExactCompany # {}) =>
    /\ ~result.threw
    /\ Returned_Entry(LastExactCompany)
    /\ \A i \in ExactCompany :
         Returned_Entry(i) <=>
           toLowerCase(TextOf(Entries[i].company))
             = toLowerCase(TextOf(Entries[LastExactCompany].company))

\* two entries of the same normalized company, spelt differently: only the
\* second came back
C25_Witness ==
  /\ Returned /\ FreeTextSearch /\ TypedCatalog
  /\ ExactCompany = {1, 2}
  /\ toLowerCase(TextOf(Entries[1].company)) = NormalizedQuery
  /\ toLowerCase(TextOf(Entries[2].company)) # NormalizedQuery
  /\ Len(Rows) = 1
  /\ RowCarries(Rows[1], Entries[2])
  /\ ~Returned_Entry(1)

\* two entries whose companies differ in case only: both came back
C25_WitnessCase ==
  /\ Returned /\ FreeTextSearch /\ TypedCatalog
  /\ ExactCompany = {1, 2}
  /\ Entries[1].company # Entries[2].company
  /\ Len(Rows) = 2
  /\ Returned_Entry(1) /\ Returned_Entry(2)

\* the promise of sendRAGMessageStream has settled
Settled == streamPc = "settled"

Terminal(call) == call.fn \in {"onComplete", "onError"}

TerminalCalls == {k \in 1..Len(calls) : Terminal(calls[k])}

(***************************************************************************)
(* C26. For every body the server sends and every way the network cuts it  *)
(* into chunks, when the promise of sendRAGMessageStream has settled       *)
(* exactly one call of onComplete or onError has been made, and it is the  *)
(* last call: no onChunk follows it.  This is so also of a stream that     *)
(* ends without a done event.                                              *)
(***************************************************************************)
C26_OneTerminalCallback ==
  Settled => TerminalCalls = {Len(calls)} /\ calls # <<>>

\* what holds of every stream: at most one terminal call, and it is the last
C26_AtMostOneTerminalCallback ==
  /\ Cardinality(TerminalCalls) <= 1
  /\ TerminalCalls \subseteq {Len(calls)}
  /\ TerminalCalls # {} => Settled

\* the lines the reader has been given, the last of them complete or not
ReceivedLines == split(SubSeq(wire, 1, received), LineFeed)

\* line k of what was received is a data event
EventAt(k) ==
  /\ startsWith(ReceivedLines[k], DataPrefix)
  /\ ~JSONparse(slice(ReceivedLines[k], 6)).threw

EventOf(k) == JSONparse(slice(ReceivedLines[k], 6)).value

DoneEventAt(k) == EventAt(k) /\ Truthy(EventOf(k).done)

ErrorEventAt(k) == EventAt(k) /\ Truthy(EventOf(k).error)

\* line k is the first done event received, and no error event precedes it
FirstDoneEventAt(k) ==
  /\ DoneEventAt(k)
  /\ \A j \in 1..(k - 1) : ~DoneEventAt(j) /\ ~ErrorEventAt(j)

\* the connection was not lost
NoReadError ==
  \A c \in 1..Len(calls) : calls[c] # onError(Text("network error"))

CompletedWith(event) ==
  \E c \in 1..Len(calls) :
    calls[c] = onComplete(event.full_response, event.context_used)

(***************************************************************************)
(* C27. When the promise has settled without the connection being lost,    *)
(* the first data event with done set that the reader was given, no error  *)
(* event before it, has made onComplete be called with its full_response   *)
(* and its context_used: whether or not it carries context_used or chunk   *)
(* too, and whether or not a line feed follows its line.                   *)
(***************************************************************************)
C27_DoneEventCompletes ==
  (Settled /\ NoReadError) =>
    \A k \in 1..Len(ReceivedLines) :
      FirstDoneEventAt(k) => CompletedWith(EventOf(k))

\* the same of the done events that carry neither context_used nor chunk and
\* whose line ends with a line feed
C27_PlainDoneEventCompletes ==
  (Settled /\ NoReadError) =>
    \A k \in 1..(Len(ReceivedLines) - 1) :
      (/\ FirstDoneEventAt(k)
       /\ ~Truthy(EventOf(k).context_used) /\ ~Truthy(EventOf(k).chunk)) =>
        CompletedWith(EventOf(k))

\* a chunk and then a plain done event, cut into pieces: onChunk, then
\* onComplete with the full response
C27_WitnessPlain ==
  /\ Settled /\ NoReadError
  /\ Len(ReceivedLines) = 3 /\ FirstDoneEventAt(2)
  /\ calls = <<onChunkText(Text("Hi"), Text("Hi")),
               onComplete(Text("Hi all"), Undefined)>>

\* a done event that carries context_used was reported as context only
C27_WitnessContext ==
  /\ Settled /\ NoReadError
  /\ Len(ReceivedLines) = 2 /\ FirstDoneEventAt(1)
  /\ Truthy(EventOf(1).context_used)
  /\ calls = <<onChunkContext(Sources)>>

\* a done event with no line feed behind it was never looked at
C27_WitnessUnterminated ==
  /\ Settled /\ NoReadError
  /\ Len(ReceivedLines) = 1 /\ FirstDoneEventAt(1)
  /\ ~Truthy(EventOf(1).context_used) /\ ~Truthy(EventOf(1).chunk)
  /\ buffer = ReceivedLines[1]
  /\ calls = <<>>

\* every call of addNewApplication has ended
AllSubmitted == \A s \in Submitters : submitters[s].pc = "done"

\* the backend was available to the calls: none of their requests failed
NoRequestFailed == \A s \in Submitters : submitters[s].caught = {}

\* saveData has not been called
NothingSaved == saver.pc = "idle"

\* the backend persists the application of submitter s
Persisted(s) ==
  /\ isArray(stored)
  /\ \E k \in 1..Len(stored.items) : stored.items[k] = submitters[s].application

(***************************************************************************)
(* C28. When several calls of addNewApplication have run with the backend  *)
(* available, however their GET /data and POST /data steps interleaved,    *)
(* the applications list the backend persists after all of them have ended *)
(* holds the application of every call: no update is lost.                 *)
(***************************************************************************)
C28_NoLostUpdate ==
  (AllSubmitted /\ NoRequestFailed /\ NothingSaved) =>
    \A s \in Submitters : Persisted(s)

\* what the calls do keep: the approvals queue holds the application of
\* every call
C28_ApprovalsComplete ==
  (AllSubmitted /\ NoRequestFailed) =>
    \A s \in Submitters :
      \E k \in 1..Len(approvals) : approvals[k] = submitters[s].application

\* two calls read the data before either wrote them back: the application
\* of the first is gone from what the backend persists
C28_WitnessLost ==
  /\ AllSubmitted /\ NoRequestFailed /\ NothingSaved
  /\ stored = ArrayOf(<<submitters[2].application, EarlierApplication>>)
  /\ Len(approvals) = 2

\* two calls one after the other: both applications are persisted
C28_WitnessKept ==
  /\ AllSubmitted /\ NoRequestFailed /\ NothingSaved
  /\ stored = ArrayOf(<<submitters[2].application, submitters[1].application,
                        EarlierApplication>>)

\* login has resolved, with true or with nothing
LoginResolved == loginPc \in {"returned true", "returned undefined"}

LoginSettled == LoginResolved \/ loginPc = "threw"

\* the step in which login settles
LoginSettles == ~LoginSettled /\ LoginSettled'

\* the user login was called for is the current user
SignedIn ==
  /\ currentUser # Null
  /\ toLowerCase(currentUser.email.chars) = toLowerCase(loginArgs.email.chars)

\* the backend failed and the storage has a user of the email, the first of
\* them with the hash of the password
LocalHashMatches ==
  /\ apiLoginReply = Rejects
  /\ findUser(users, loginArgs.email) # 0
  /\ users[findUser(users, loginArgs.email)].passwordHash
       = hashStringSHA256(loginArgs.password)

\* the form of Login.js has shown a toast of the kind
LoginToast(kind) == \E k \in 1..Len(toast) : toast[k] = Toast(kind, "Login")

(***************************************************************************)
(* C29. When login(email, password) resolves, currentUser is set to the    *)
(* user: the backend answered with success and a user, or the backend      *)
(* failed and the local hash of the password matches.  For every other     *)
(* outcome of the backend, a response without success that is not thrown   *)
(* among them, login rejects and currentUser is as it was.                 *)
(***************************************************************************)
C29_ResolvedMeansSignedIn ==
  [][LoginSettles =>
       /\ LoginResolved' =>
            SignedIn' /\ (SuccessWithUser(apiLoginReply) \/ LocalHashMatches)
       /\ (~SuccessWithUser(apiLoginReply) /\ ~LocalHashMatches) =>
            loginPc' = "threw" /\ currentUser' = currentUser]_vars

\* what holds of login: when it returns true it has set the user, it
\* rejects only when the backend has failed, and it leaves the current
\* user as it was when it does not return true
C29_TrueMeansSignedIn ==
  [][LoginSettles =>
       /\ loginPc' = "returned true" => SignedIn'
       /\ loginPc' = "threw" =>
            apiLoginReply = Rejects /\ currentUser' = currentUser
       /\ loginPc' = "returned undefined" =>
            /\ apiLoginReply # Rejects /\ ~SuccessWithUser(apiLoginReply)
            /\ currentUser' = currentUser]_vars

\* the backend answered without success: login resolved, nobody is signed in
\* and the form told of a successful login
C29_WitnessNotSignedIn ==
  /\ loginPc = "returned undefined"
  /\ apiLoginReply = LoginData(Bool(FALSE), Undefined)
  /\ currentUser = Null
  /\ LoginToast("success")

\* the backend failed and the local user, found by an email of other case,
\* was signed in
C29_WitnessLocal ==
  /\ loginPc = "returned true"
  /\ apiLoginReply = Rejects
  /\ loginArgs.email # currentUser.email
  /\ SignedIn /\ currentUser.passwordHash = Undefined
  /\ users[Len(users)].lastLogin = Text("now")

\* a user signed up while handleSubmit waited for its timer: login, made in
\* the render before, did not find the user
C29_WitnessStaleUsers ==
  /\ loginPc = "threw"
  /\ loginScope = <<>>
  /\ LocalHashMatches

VersionResolved == versionPc = "resolved"

\* the version the direct call to Ollama yields: the trimmed response of a
\* reply of status 200, if that is a text with more than white space
DirectVersion ==
  IF /\ ollamaReply # Rejects /\ ollamaReply.data # Null
     /\ ollamaReply.status = 200
     /\ IsString(ollamaReply.data.response)
     /\ trim(ollamaReply.data.response.chars) # <<>>
    THEN Str(trim(ollamaReply.data.response.chars))
    ELSE Undefined

\* the version the backend yields: the version of its data, if a text that
\* is not empty
BackendVersion ==
  IF /\ backendReply # Rejects /\ backendReply.data # Null
     /\ IsString(backendReply.data.version)
     /\ backendReply.data.version.chars # <<>>
    THEN backendReply.data.version
    ELSE Undefined

(***************************************************************************)
(* C30. extractVersionWithOllama resolves to a string that is not empty:   *)
(* the trimmed response of Ollama when the direct call yields one, else    *)
(* the version of the backend, and "NO VERSION FOUND" when neither yields  *)
(* a version.  So the backend is asked whenever the direct call yields no  *)
(* version, and the call never resolves to undefined.                      *)
(***************************************************************************)
C30_ResolvesToVersion ==
  VersionResolved =>
    /\ IsString(extracted) /\ extracted.chars # <<>>
    /\ extracted =
         IF DirectVersion # Undefined THEN DirectVersion
         ELSE IF BackendVersion # Undefined THEN BackendVersion
         ELSE Str(NoVersionFound)

\* the same of the calls whose request to Ollama fails
C30_ResolvesAfterFailedRequest ==
  (VersionResolved /\ ollamaReply = Rejects /\ backendReply # Rejects
   /\ backendReply.data # Null /\ backendReply.data.version.type # "number") =>
    /\ IsString(extracted) /\ extracted.chars # <<>>
    /\ extracted =
         IF BackendVersion # Undefined THEN BackendVersion
         ELSE Str(NoVersionFound)

\* Ollama answered with status 200 and an empty response while the backend
\* has a version: the call resolved to undefined
C30_WitnessUndefined ==
  /\ VersionResolved
  /\ ollamaReply = Response(200, Generated(Str(<<>>)))
  /\ BackendVersion # Undefined
  /\ extracted = Undefined

\* Ollama answered with white space only: the call resolved to the empty
\* string
C30_WitnessEmpty ==
  /\ VersionResolved
  /\ ollamaReply # Rejects /\ DirectVersion = Undefined
  /\ extracted = Str(<<>>)

\* the request to Ollama failed and the backend had the version
C30_WitnessBackend ==
  /\ VersionResolved
  /\ ollamaReply = Rejects
  /\ extracted = Str(<<"2","0","2","2">>)

\* Ollama answered with a version with white space around it
C30_WitnessDirect ==
  /\ VersionResolved
  /\ extracted = Str(<<"2","2",".","1">>)
  /\ BackendVersion # Undefined

====
